---- MODULE Spec2Model ----
(***************************************************************************)
(* LilypadCache (TTL cache with stale-on-error fallback) together with the *)
(* LilypadFlowControl instance it delegates getOrSet to (single-flight and *)
(* timeout).  JavaScript's run-to-completion scheduling is modelled by a   *)
(* FIFO queue of promise jobs (mq): every `await` continuation is one job. *)
(***************************************************************************)
EXTENDS Integers, Sequences, FiniteSets, TLC

\* ---- bounds of the model ------------------------------------------------
MaxTime == 2
MaxCalls == 2
\* constructor arguments, scaled down to model time units
DefaultTtl == 2
DefaultErrorTtl == 1
FlowControlTimeout == 1

Keys == {"k1", "k2"}
\* the keys getOrSet is called with
LoadKeys == {"k1"}
Values == {1, 2}
\* the value a value-returning options.errorFn returns
ErrorFnValues == {2}
\* an optional number: <<>> is undefined, <<n>> is n
TtlArgs == {<<>>, <<0>>, <<1>>}
OptTtls == {<<>>, <<1>>}
OptErrorTtls == {<<>>, <<2>>}
\* options.errorFn: absent, returns undefined, throws, or returns a value
ErrorFns == {[kind |-> "none", val |-> 0], [kind |-> "undefined", val |-> 0],
             [kind |-> "throws", val |-> 0]}
            \cup {[kind |-> "value", val |-> v] : v \in ErrorFnValues}
\* getOrSet options; ttl and errorTtl are given together or not at all
GetOptions == {o \in [ttl : OptTtls, skipCache : BOOLEAN, returnOldOnError : BOOLEAN,
                      errorFn : ErrorFns, errorTtl : OptErrorTtls] :
                 (o.ttl = <<>>) = (o.errorTtl = <<>>)}
\* the options of concurrent callers: none, skipCache, and the two fallbacks
\* (old value, errorFn value), each with and without an errorTtl
SharedOptions ==
  LET base == [ttl |-> <<>>, skipCache |-> FALSE, returnOldOnError |-> FALSE,
               errorFn |-> [kind |-> "none", val |-> 0], errorTtl |-> <<>>]
  IN {base, [base EXCEPT !.skipCache = TRUE]}
     \cup {[base EXCEPT !.returnOldOnError = TRUE, !.errorTtl = t] : t \in OptErrorTtls}
     \cup {[base EXCEPT !.errorFn = [kind |-> "value", val |-> v], !.errorTtl = t] :
             v \in ErrorFnValues, t \in OptErrorTtls}

VARIABLES
  now,              \* Date.now()
  store,            \* LilypadCache.store : Map<K, {value, expirationTime}>
  protectedKeys,    \* LilypadCache.protectedKeys : Set<K>
  singleFlightMap,  \* flowControl.singleFlightMap, by key: id of the call that owns the pipeline, 0 if none
  calls,            \* every getOrSet call issued so far, in order
  mq,               \* promise job queue (FIFO)
  last,             \* the operation that produced the current state, with its return value
  written,          \* history: for each key, which operation last wrote its entry, and when
  cfg,              \* the inputs the environment draws from (fixed by Init)
  phase,            \* the cache object: "new" before the constructor ran, then "live", "failed" or "disposed"
  logger,           \* LilypadCache.logger is set
  cleanupIntervalId, \* LilypadCache.cleanupIntervalId : 0 is undefined, else the timer's handle
  intervalTimer,    \* the runtime's interval timer: whether it is active, its period and next firing time
  fc,               \* the LilypadFlowControl instance's fields rate, timeout, retries
  rateMap,          \* LilypadFlowControl.rateMap : Map<string, number>
  passed,           \* history: for each (consumer, function) pair, the time of its last rateLimit call that passed
  ops,              \* every call made on the flow control directly, in order
  bulkSyncExpirationTime, \* LilypadCache.bulkSyncExpirationTime
  bulkFlight,       \* bulkSyncFlowControl.singleFlightMap for 'LilypadCache-bulkSync': id of the owning bulkSync call, 0 if none
  syncs,            \* every bulkSync call issued so far, in order
  logs              \* history: the messages handed to the logger, in order

lifeVars == <<phase, logger, cleanupIntervalId, intervalTimer>>

flowVars == <<fc, rateMap, passed, ops>>

syncVars == <<bulkSyncExpirationTime, bulkFlight, syncs, logs>>

vars == <<now, store, protectedKeys, singleFlightMap, calls, mq, last, written, cfg, syncVars,
          lifeVars, flowVars>>

\* ---- helpers ------------------------------------------------------------
NullishCoalesce(opt, d) == IF opt = <<>> THEN d ELSE opt[1]

NoRet == [type |-> "none", value |-> 0, expirationTime |-> 0]
NoResult == [kind |-> "none", val |-> 0, err |-> "none"]
ValueResult(v) == [kind |-> "value", val |-> v, err |-> "none"]
ErrorResult(e) == [kind |-> "error", val |-> 0, err |-> e]

\* history record of a write: the writing operation, its getOrSet call (0 if
\* none), the value it was asked to store and the time at which the entry
\* is to expire (time of the write + the ttl in force)
Write(by, c, value, expires) == [by |-> by, c |-> c, value |-> value, expires |-> expires]
NoWrite == Write("none", 0, 0, 0)
\* the history after a step that leaves the store as s2, where key (if any)
\* was written as w: entries that changed otherwise lose their record
Track(s2, key, w) ==
  [k \in Keys |->
     IF k = key THEN w
     ELSE IF (k \in DOMAIN s2) = (k \in DOMAIN store) /\ (k \in DOMAIN s2 => s2[k] = store[k])
       THEN written[k]
       ELSE NoWrite]

\* `last`: a synchronous cache operation with its arguments and return value
Op(name, key, flag, ret) == [op |-> name, key |-> key, flag |-> flag, ret |-> ret]
NoOp == Op("none", "", FALSE, NoRet)

MapDelete(m, k) == [x \in (DOMAIN m) \ {k} |-> m[x]]
MapSet(m, k, e) == [x \in (DOMAIN m) \cup {k} |-> IF x = k THEN e ELSE m[x]]

\* ---- LilypadCache: pure parts -------------------------------------------
\* an entry that is still fresh at the instant it expires
isStaleLate(entry, t) == t > entry.expirationTime

isStale(entry, t) == t >= entry.expirationTime

createExpirationTime(t, ttl) == t + NullishCoalesce(ttl, DefaultTtl)

\* store after set(key, value, ttl) at time t
StoreSet(s, t, key, value, ttl) ==
  MapSet(s, key, [value |-> value, expirationTime |-> createExpirationTime(t, ttl)])

getComprehensive(s, t, key) ==
  IF key \in DOMAIN s /\ ~isStale(s[key], t)
    THEN [type |-> "hit", value |-> s[key].value, expirationTime |-> s[key].expirationTime]
    ELSE IF key \in DOMAIN s
      THEN [type |-> "expired", value |-> s[key].value, expirationTime |-> s[key].expirationTime]
      ELSE [type |-> "miss", value |-> 0, expirationTime |-> 0]

\* a delete that does not consult the protected keys
StoreDeleteUnguarded(s, prot, key, force) == MapDelete(s, key)

\* store after delete(key, {force})
StoreDelete(s, prot, key, force) ==
  IF key \in prot /\ ~force THEN s ELSE MapDelete(s, key)

\* ---- Init ---------------------------------------------------------------
\* String(key) of a key that is an object without a toString of its own
ObjectString == "[object Object]"
\* the strings String(key) can be: a string key is its own string
KeyStrings == Keys \cup {ObjectString}
\* the cache's keys are strings, or they are objects
StringKeys == [k \in Keys |-> k]
ObjectKeys == [k \in Keys |-> ObjectString]

\* no bulk sync has run and nothing has been logged
NoSync ==
  /\ bulkSyncExpirationTime = 0
  /\ bulkFlight = 0
  /\ syncs = <<>>
  /\ logs = <<>>

Empty ==
  /\ NoSync
  /\ now = 0
  /\ store = <<>>
  /\ protectedKeys = {}
  /\ singleFlightMap = [f \in KeyStrings |-> 0]
  /\ calls = <<>>
  /\ mq = <<>>
  /\ last = NoOp
  /\ written = [k \in Keys |-> NoWrite]

NoTimer == [active |-> FALSE, period |-> 0, next |-> 0]

\* consumer and function identifiers: strings, as sequences of characters
Ids == {<<"a">>, <<"b">>, <<"a", "#", "a">>}
Pairs == Ids \X Ids

\* the flow control a cache builds for getOrSet: a timeout, no rate, no
\* retries; no call is made on it directly
CacheFlowControl ==
  /\ fc = [rate |-> <<>>, timeout |-> <<FlowControlTimeout>>, retries |-> <<>>]
  /\ rateMap = <<>>
  /\ passed = [p \in Pairs |-> <<>>]
  /\ ops = <<>>

\* a cache constructed without logger and without autoCleanupInterval
Constructed ==
  /\ phase = "live"
  /\ logger = FALSE
  /\ cleanupIntervalId = 0
  /\ intervalTimer = NoTimer

\* one getOrSet call with every combination of options
InitSolo ==
  /\ Empty
  /\ Constructed
  /\ CacheFlowControl
  /\ cfg = [maxCalls |-> 1, options |-> GetOptions, values |-> Values, ttls |-> TtlArgs,
            loads |-> Values, keys |-> LoadKeys, string |-> StringKeys]

\* MaxCalls getOrSet calls
InitShared ==
  /\ Empty
  /\ Constructed
  /\ CacheFlowControl
  /\ cfg = [maxCalls |-> MaxCalls, options |-> SharedOptions, values |-> {1},
            ttls |-> {<<>>, <<0>>}, loads |-> {2}, keys |-> LoadKeys, string |-> StringKeys]

\* the getOrSet options without skipCache and fallbacks
PlainOptions ==
  [ttl |-> <<>>, skipCache |-> FALSE, returnOldOnError |-> FALSE,
   errorFn |-> [kind |-> "none", val |-> 0], errorTtl |-> <<>>]

\* MaxCalls getOrSet calls for any of the keys, which are strings or objects
InitKeys ==
  /\ Empty
  /\ Constructed
  /\ CacheFlowControl
  /\ cfg \in {[maxCalls |-> MaxCalls, options |-> {PlainOptions}, values |-> {1},
               ttls |-> {<<>>}, loads |-> Values, keys |-> Keys, string |-> str] :
                str \in {StringKeys, ObjectKeys}}

InitStore ==
  /\ Empty
  /\ Constructed
  /\ CacheFlowControl
  /\ cfg = [maxCalls |-> 0, options |-> {}, values |-> Values, ttls |-> TtlArgs,
            loads |-> {}]

\* ---- clock --------------------------------------------------------------
Tick ==
  /\ now < MaxTime
  /\ now' = now + 1
  /\ last' = NoOp
  /\ UNCHANGED <<store, protectedKeys, singleFlightMap, calls, mq, written, cfg, syncVars, lifeVars, flowVars>>

\* ---- synchronous cache operations ----------------------------------------
Set(key, value, ttl) ==
  /\ store' = StoreSet(store, now, key, value, ttl)
  /\ last' = NoOp
  /\ written' = Track(store', key, Write("set", 0, value,
                                         now + (IF ttl = <<>> THEN DefaultTtl ELSE ttl[1])))
  /\ UNCHANGED <<now, protectedKeys, singleFlightMap, calls, mq, cfg, syncVars, lifeVars, flowVars>>

\* a get that removes the expired entry from the map directly
GetEvictDirect(key, removeOld) ==
  LET hit == key \in DOMAIN store /\ ~isStale(store[key], now) IN
  /\ store' = IF hit \/ ~removeOld THEN store ELSE MapDelete(store, key)
  /\ last' = Op("get", key, removeOld,
                IF hit THEN [type |-> "value", value |-> store[key].value, expirationTime |-> 0]
                       ELSE [type |-> "undefined", value |-> 0, expirationTime |-> 0])
  /\ written' = Track(store', "", NoWrite)
  /\ UNCHANGED <<now, protectedKeys, singleFlightMap, calls, mq, cfg, syncVars, lifeVars, flowVars>>

\* get(key, removeOld): the value on a hit, otherwise undefined after an
\* unforced delete(key) when removeOld is set
Get(key, removeOld) ==
  LET hit == key \in DOMAIN store /\ ~isStale(store[key], now) IN
  /\ store' = IF hit \/ ~removeOld THEN store
              ELSE StoreDelete(store, protectedKeys, key, FALSE)
  /\ last' = Op("get", key, removeOld,
                IF hit THEN [type |-> "value", value |-> store[key].value, expirationTime |-> 0]
                       ELSE [type |-> "undefined", value |-> 0, expirationTime |-> 0])
  /\ written' = Track(store', "", NoWrite)
  /\ UNCHANGED <<now, protectedKeys, singleFlightMap, calls, mq, cfg, syncVars, lifeVars, flowVars>>

GetComprehensive(key) ==
  /\ last' = Op("getComprehensive", key, FALSE, getComprehensive(store, now, key))
  /\ UNCHANGED <<now, store, protectedKeys, singleFlightMap, calls, mq, written, cfg, syncVars, lifeVars, flowVars>>

Delete(key, force) ==
  /\ store' = StoreDelete(store, protectedKeys, key, force)
  /\ last' = Op("delete", key, force, NoRet)
  /\ written' = Track(store', "", NoWrite)
  /\ UNCHANGED <<now, protectedKeys, singleFlightMap, calls, mq, cfg, syncVars, lifeVars, flowVars>>

\* store after delete(key, {force}) for every key of `keys`
RECURSIVE DeleteAll(_, _, _, _)
DeleteAll(s, prot, keys, force) ==
  IF keys = {} THEN s
  ELSE LET k == CHOOSE x \in keys : TRUE IN
       DeleteAll(StoreDelete(s, prot, k, force), prot, keys \ {k}, force)

Clear(force) ==
  /\ store' = DeleteAll(store, protectedKeys, DOMAIN store, force)
  /\ last' = Op("clear", "", force, NoRet)
  /\ written' = Track(store', "", NoWrite)
  /\ UNCHANGED <<now, protectedKeys, singleFlightMap, calls, mq, cfg, syncVars, lifeVars, flowVars>>

\* a purge that keeps the entries expiring at this very instant
PurgeExpiredLate(force) ==
  /\ store' = DeleteAll(store, protectedKeys,
                        {k \in DOMAIN store : now > store[k].expirationTime}, force)
  /\ last' = Op("purgeExpired", "", force, NoRet)
  /\ written' = Track(store', "", NoWrite)
  /\ UNCHANGED <<now, protectedKeys, singleFlightMap, calls, mq, cfg, syncVars, lifeVars, flowVars>>

\* purgeExpired({force}): delete(key, {force}) for every entry with
\* now >= expirationTime
PurgeExpired(force) ==
  /\ store' = DeleteAll(store, protectedKeys,
                        {k \in DOMAIN store : now >= store[k].expirationTime}, force)
  /\ last' = Op("purgeExpired", "", force, NoRet)
  /\ written' = Track(store', "", NoWrite)
  /\ UNCHANGED <<now, protectedKeys, singleFlightMap, calls, mq, cfg, syncVars, lifeVars, flowVars>>

\* a bulkGet whose gets evict the expired entries of protected keys too
bulkGetForced(s, prot, t) ==
  LET fresh == {k \in DOMAIN s : ~isStale(s[k], t)}
  IN  [store |-> DeleteAll(s, prot, DOMAIN s \ fresh, TRUE),
       result |-> [k \in fresh |-> s[k].value]]

\* bulkGet({keys: undefined}) at time t on the store s: get(key) for every
\* stored key, which returns the value of a fresh entry and deletes (unforced)
\* an expired one
bulkGet(s, prot, t) ==
  LET fresh == {k \in DOMAIN s : ~isStale(s[k], t)}
  IN  [store |-> DeleteAll(s, prot, DOMAIN s \ fresh, FALSE),
       result |-> [k \in fresh |-> s[k].value]]

\* a direct call of bulkGet({}); `last` keeps the size of the returned map
BulkGet ==
  LET r == bulkGet(store, protectedKeys, now)
  IN  /\ store' = r.store
      /\ last' = Op("bulkGet", "", FALSE,
                    [type |-> "map", value |-> Cardinality(DOMAIN r.result),
                     expirationTime |-> 0])
      /\ written' = Track(store', "", NoWrite)
      /\ UNCHANGED <<now, protectedKeys, singleFlightMap, calls, mq, cfg, syncVars, lifeVars,
                     flowVars>>

\* an invalidate that removes the entry
InvalidateByDelete(key) ==
  /\ store' = MapDelete(store, key)
  /\ last' = Op("invalidate", key, FALSE, NoRet)
  /\ written' = Track(store', "", NoWrite)
  /\ UNCHANGED <<now, protectedKeys, singleFlightMap, calls, mq, cfg, syncVars, lifeVars, flowVars>>

Invalidate(key) ==
  LET comprehensive == getComprehensive(store, now, key) IN
  /\ IF comprehensive.type = "hit"
       THEN /\ store' = StoreSet(store, now, key, comprehensive.value, <<-1>>)
            /\ written' = Track(store', key, Write("invalidate", 0, comprehensive.value, now - 1))
       ELSE UNCHANGED <<store, written>>
  /\ last' = Op("invalidate", key, FALSE, NoRet)
  /\ UNCHANGED <<now, protectedKeys, singleFlightMap, calls, mq, cfg, syncVars, lifeVars, flowVars>>

AddProtectedKeys(keys) ==
  /\ protectedKeys' = protectedKeys \cup keys
  /\ last' = Op("addProtectedKeys", "", FALSE, NoRet)
  /\ UNCHANGED <<now, store, singleFlightMap, calls, mq, written, cfg, syncVars, lifeVars, flowVars>>

RemoveProtectedKeys(keys) ==
  /\ protectedKeys' = protectedKeys \ keys
  /\ last' = Op("removeProtectedKeys", "", FALSE, NoRet)
  /\ UNCHANGED <<now, store, singleFlightMap, calls, mq, written, cfg, syncVars, lifeVars, flowVars>>

\* ---- getOrSet and the flow-control pipeline ------------------------------
Job(kind, c, res) == [kind |-> kind, c |-> c, res |-> res]

HeadIs(kind) == mq /= <<>> /\ Head(mq).kind = kind

\* errorReturn that re-caches the fallback with the default ttl
errorReturnDefaultTtl(s, t, error, options, key, fetched) ==
  IF options.errorFn.kind = "throws"
    THEN [store |-> s, result |-> ErrorResult("errorFn")]
  ELSE IF options.errorFn.kind = "value"
    THEN [store |-> StoreSet(s, t, key, options.errorFn.val, <<>>),
          result |-> ValueResult(options.errorFn.val)]
  ELSE IF fetched.type /= "miss" /\ options.returnOldOnError
    THEN [store |-> StoreSet(s, t, key, fetched.value, <<>>),
          result |-> ValueResult(fetched.value)]
  ELSE [store |-> s, result |-> ErrorResult(error)]

\* errorReturn that returns the fallback without caching it
errorReturnNoRecache(s, t, error, options, key, fetched) ==
  IF options.errorFn.kind = "throws"
    THEN [store |-> s, result |-> ErrorResult("errorFn")]
  ELSE IF options.errorFn.kind = "value"
    THEN [store |-> s, result |-> ValueResult(options.errorFn.val)]
  ELSE IF fetched.type /= "miss" /\ options.returnOldOnError
    THEN [store |-> s, result |-> ValueResult(fetched.value)]
  ELSE [store |-> s, result |-> ErrorResult(error)]

\* errorReturn that wraps the error it rethrows
errorReturnWrapped(s, t, error, options, key, fetched) ==
  IF options.errorFn.kind = "throws"
    THEN [store |-> s, result |-> ErrorResult("errorFn")]
  ELSE IF options.errorFn.kind = "value"
    THEN [store |-> StoreSet(s, t, key, options.errorFn.val,
                             <<NullishCoalesce(options.errorTtl, DefaultErrorTtl)>>),
          result |-> ValueResult(options.errorFn.val)]
  ELSE IF fetched.type /= "miss" /\ options.returnOldOnError
    THEN [store |-> StoreSet(s, t, key, fetched.value,
                             <<NullishCoalesce(options.errorTtl, DefaultErrorTtl)>>),
          result |-> ValueResult(fetched.value)]
  ELSE [store |-> s, result |-> ErrorResult("wrapped")]

\* errorReturn that prefers the old value to the value of errorFn
errorReturnOldFirst(s, t, error, options, key, fetched) ==
  IF options.errorFn.kind = "throws"
    THEN [store |-> s, result |-> ErrorResult("errorFn")]
  ELSE IF fetched.type /= "miss" /\ options.returnOldOnError
    THEN [store |-> StoreSet(s, t, key, fetched.value,
                             <<NullishCoalesce(options.errorTtl, DefaultErrorTtl)>>),
          result |-> ValueResult(fetched.value)]
  ELSE IF options.errorFn.kind = "value"
    THEN [store |-> StoreSet(s, t, key, options.errorFn.val,
                             <<NullishCoalesce(options.errorTtl, DefaultErrorTtl)>>),
          result |-> ValueResult(options.errorFn.val)]
  ELSE [store |-> s, result |-> ErrorResult(error)]

\* errorReturn that catches an exception of options.errorFn and goes on to
\* the other fallbacks
errorReturnCatch(s, t, error, options, key, fetched) ==
  IF options.errorFn.kind = "value"
    THEN [store |-> StoreSet(s, t, key, options.errorFn.val,
                             <<NullishCoalesce(options.errorTtl, DefaultErrorTtl)>>),
          result |-> ValueResult(options.errorFn.val)]
  ELSE IF fetched.type /= "miss" /\ options.returnOldOnError
    THEN [store |-> StoreSet(s, t, key, fetched.value,
                             <<NullishCoalesce(options.errorTtl, DefaultErrorTtl)>>),
          result |-> ValueResult(fetched.value)]
  ELSE [store |-> s, result |-> ErrorResult(error)]

\* errorReturn(error, options, key, fetched) at time t: the store afterwards
\* and the value returned or the error thrown
errorReturn(s, t, error, options, key, fetched) ==
  IF options.errorFn.kind = "throws"
    THEN [store |-> s, result |-> ErrorResult("errorFn")]
  ELSE IF options.errorFn.kind = "value"
    THEN [store |-> StoreSet(s, t, key, options.errorFn.val,
                             <<NullishCoalesce(options.errorTtl, DefaultErrorTtl)>>),
          result |-> ValueResult(options.errorFn.val)]
  ELSE IF fetched.type /= "miss" /\ options.returnOldOnError
    THEN [store |-> StoreSet(s, t, key, fetched.value,
                             <<NullishCoalesce(options.errorTtl, DefaultErrorTtl)>>),
          result |-> ValueResult(fetched.value)]
  ELSE [store |-> s, result |-> ErrorResult(error)]

\* this.logger?.error(...) on a cache whose logger field is lg: the messages
\* handed to the logger; what the call returns is not looked at
LoggerError(lg, message) == IF lg THEN <<message>> ELSE <<>>

\* errorReturn on a cache whose logger field is lg: the error is logged
\* first, then the fallbacks are tried
errorReturnLogged(lg, s, t, error, options, key, fetched) ==
  LET r == errorReturn(s, t, error, options, key, fetched)
  IN  [store |-> r.store, result |-> r.result, logged |-> LoggerError(lg, "getOrSet")]

\* a single-flight check that never finds the key
InFlightNever(map, key) == FALSE

\* a single-flight check that is lost once the timeout has fired
InFlightUntilTimeout(map, key) ==
  map[key] /= 0 /\ calls[map[key]].timer = "armed"

\* this.singleFlightMap.has(functionIdentifier)
InFlight(map, key) == map[key] /= 0

\* String(key), the part of getOrSet's function identifier
\* `LilypadCache-getOrSet-${String(key)}` that varies
String(key) == cfg.string[key]

\* the earliest call in `ids` (0 if none)
First(ids) == IF ids = {} THEN 0 ELSE CHOOSE i \in ids : \A j \in ids : i <= j

\* a getOrSet that returns the cached value of a hit even with skipCache
GetOrSetIgnoreSkip(key, options) ==
  LET fetched == getComprehensive(store, now, key)
      c == Len(calls) + 1
      call == [key |-> key, opts |-> options,
               fetched |-> [type |-> fetched.type, value |-> fetched.value],
               pc |-> "rate", leader |-> 0, result |-> NoResult,
               loader |-> "none", lval |-> 0, timer |-> "none", deadline |-> 0,
               replaced |-> <<>>,
               firstRunning |-> 0, firstAwaited |-> 0]
  IN
  /\ Len(calls) < cfg.maxCalls
  /\ IF fetched.type = "hit"
       THEN /\ calls' = Append(calls, [call EXCEPT !.pc = "done",
                                                   !.result = ValueResult(fetched.value)])
            /\ mq' = mq
       ELSE /\ calls' = Append(calls, call)
            /\ mq' = Append(mq, Job("resume", c, NoResult))
  /\ last' = NoOp
  /\ UNCHANGED <<now, store, protectedKeys, singleFlightMap, written, cfg, syncVars, lifeVars, flowVars>>

\* getOrSet up to the first suspension: classify, return on a hit, otherwise
\* call flowControl.executeFn, which suspends at `await this.rateLimit(...)`.
\* Of `fetched` the call keeps what it reads later: type and value.
GetOrSet(key, options) ==
  LET fetched == getComprehensive(store, now, key)
      c == Len(calls) + 1
      call == [key |-> key, opts |-> options,
               fetched |-> [type |-> fetched.type, value |-> fetched.value],
               pc |-> "rate", leader |-> 0, result |-> NoResult,
               loader |-> "none", lval |-> 0, timer |-> "none", deadline |-> 0,
               replaced |-> <<>>,
               \* history, as of call time: the earliest call for the key whose
               \* loader had not settled, and the earliest whose loader had not
               \* settled and whose timeout had not fired
               firstRunning |-> First({i \in 1..Len(calls) :
                                  calls[i].key = key /\
                                  (calls[i].pc = "rate" \/ calls[i].loader = "running")}),
               firstAwaited |-> First({i \in 1..Len(calls) :
                                  calls[i].key = key /\
                                  (calls[i].pc = "rate" \/
                                   (calls[i].loader = "running" /\ calls[i].timer = "armed"))})]
  IN
  /\ Len(calls) < cfg.maxCalls
  /\ IF ~options.skipCache /\ fetched.type = "hit"
       THEN /\ calls' = Append(calls, [call EXCEPT !.pc = "done",
                                                   !.result = ValueResult(fetched.value)])
            /\ mq' = mq
       ELSE /\ calls' = Append(calls, call)
            /\ mq' = Append(mq, Job("resume", c, NoResult))
  /\ last' = NoOp
  /\ UNCHANGED <<now, store, protectedKeys, singleFlightMap, written, cfg, syncVars, lifeVars, flowVars>>

\* executeFn after the rate check: join the in-flight promise, or start the
\* pipeline (arm the timeout, invoke the loader) and register it
Resume ==
  /\ HeadIs("resume")
  /\ LET c == Head(mq).c
         k == calls[c].key
     IN
     /\ IF InFlight(singleFlightMap, String(k))
          THEN /\ calls' = [calls EXCEPT ![c].pc = "wait",
                                         ![c].leader = singleFlightMap[String(k)]]
               /\ UNCHANGED singleFlightMap
          ELSE /\ calls' = [calls EXCEPT ![c].pc = "wait", ![c].leader = c,
                                         ![c].loader = "running", ![c].timer = "armed",
                                         ![c].deadline = now + FlowControlTimeout]
               /\ singleFlightMap' = [singleFlightMap EXCEPT ![String(k)] = c]
     /\ last' = NoOp
  /\ mq' = Tail(mq)
  /\ UNCHANGED <<now, store, protectedKeys, written, cfg, syncVars, lifeVars, flowVars>>

\* the loader (valueFn) of call c settles
LoaderResolve(c, v) ==
  /\ c \in 1..Len(calls)
  /\ calls[c].loader = "running"
  /\ calls' = [calls EXCEPT ![c].loader = "resolved", ![c].lval = v]
  /\ mq' = Append(mq, Job("fnCont", c, ValueResult(v)))
  /\ last' = NoOp
  /\ UNCHANGED <<now, store, protectedKeys, singleFlightMap, written, cfg, syncVars, lifeVars, flowVars>>

LoaderReject(c) ==
  /\ c \in 1..Len(calls)
  /\ calls[c].loader = "running"
  /\ calls' = [calls EXCEPT ![c].loader = "rejected"]
  /\ mq' = Append(mq, Job("fnCont", c, ErrorResult("loader")))
  /\ last' = NoOp
  /\ UNCHANGED <<now, store, protectedKeys, singleFlightMap, written, cfg, syncVars, lifeVars, flowVars>>

\* fn that caches the loaded value with the default ttl
FnContDefaultTtl ==
  /\ HeadIs("fnCont")
  /\ LET c == Head(mq).c
         res == Head(mq).res
         k == calls[c].key
     IN
     /\ IF res.kind = "value"
          THEN /\ store' = StoreSet(store, now, k, res.val, <<>>)
               /\ written' = Track(store', k, Write("load", c, res.val, now + DefaultTtl))
          ELSE UNCHANGED <<store, written>>
     /\ mq' = IF calls[c].timer = "armed"
                THEN Append(Tail(mq), Job("pipeCont", c, res))
                ELSE Tail(mq)
     /\ last' = NoOp
  /\ UNCHANGED <<now, protectedKeys, singleFlightMap, calls, cfg, syncVars, lifeVars, flowVars>>

\* fn that drops the loaded value once the timeout has fired
FnContUnlessTimedOut ==
  /\ HeadIs("fnCont")
  /\ LET c == Head(mq).c
         res == Head(mq).res
         k == calls[c].key
     IN
     /\ IF res.kind = "value" /\ calls[c].timer = "armed"
          THEN /\ store' = StoreSet(store, now, k, res.val, calls[c].opts.ttl)
               /\ written' = Track(store', k, Write("load", c, res.val,
                                     now + (IF calls[c].opts.ttl = <<>> THEN DefaultTtl
                                            ELSE calls[c].opts.ttl[1])))
          ELSE UNCHANGED <<store, written>>
     /\ mq' = IF calls[c].timer = "armed"
                THEN Append(Tail(mq), Job("pipeCont", c, res))
                ELSE Tail(mq)
     /\ last' = NoOp
  /\ UNCHANGED <<now, protectedKeys, singleFlightMap, calls, cfg, syncVars, lifeVars, flowVars>>

\* fn after `await valueFn()`: store the value; the race takes fn's outcome
\* unless the timeout has already rejected it
FnCont ==
  /\ HeadIs("fnCont")
  /\ LET c == Head(mq).c
         res == Head(mq).res
         k == calls[c].key
     IN
     /\ IF res.kind = "value"
          THEN /\ store' = StoreSet(store, now, k, res.val, calls[c].opts.ttl)
               /\ written' = Track(store', k, Write("load", c, res.val,
                                     now + (IF calls[c].opts.ttl = <<>> THEN DefaultTtl
                                            ELSE calls[c].opts.ttl[1])))
          ELSE UNCHANGED <<store, written>>
     /\ mq' = IF calls[c].timer = "armed"
                THEN Append(Tail(mq), Job("pipeCont", c, res))
                ELSE Tail(mq)
     /\ last' = NoOp
  /\ UNCHANGED <<now, protectedKeys, singleFlightMap, calls, cfg, syncVars, lifeVars, flowVars>>

\* the timeout of executeWithTimeout fires: a timer callback runs only when
\* no promise job is pending
TimerFire(c) ==
  /\ c \in 1..Len(calls)
  /\ mq = <<>>
  /\ calls[c].timer = "armed"
  /\ now >= calls[c].deadline
  /\ calls' = [calls EXCEPT ![c].timer = "fired", ![c].deadline = 0]
  /\ mq' = <<Job("pipeCont", c, ErrorResult("timeout"))>>
  /\ last' = NoOp
  /\ UNCHANGED <<now, store, protectedKeys, singleFlightMap, written, cfg, syncVars, lifeVars, flowVars>>

\* a pipeline whose errorFn classifies the key again when the error arrives
PipeContWithCurrent(lg) ==
  /\ HeadIs("pipeCont")
  /\ LET c == Head(mq).c
         res == Head(mq).res
         k == calls[c].key
         er == errorReturnLogged(lg, store, now, res.err, calls[c].opts, k,
                                  getComprehensive(store, now, k))
     IN
     /\ calls' = [calls EXCEPT ![c].timer = IF @ = "armed" THEN "cleared" ELSE @,
                               ![c].deadline = 0,
                               \* history: the value the fallback was cached over
                               ![c].replaced = IF res.kind = "error" /\ er.result.kind = "value"
                                                    /\ k \in DOMAIN store
                                                 THEN <<store[k].value>> ELSE @]
     /\ store' = IF res.kind = "error" THEN er.store ELSE store
     /\ written' = IF res.kind = "error" /\ er.result.kind = "value"
                     THEN Track(store', k, Write("fallback", c, er.result.val,
                                  now + (IF calls[c].opts.errorTtl = <<>> THEN DefaultErrorTtl
                                         ELSE calls[c].opts.errorTtl[1])))
                     ELSE Track(store', "", NoWrite)
     /\ mq' = Append(Tail(mq), Job("finally", c, IF res.kind = "value" THEN res ELSE er.result))
     /\ last' = NoOp
  /\ UNCHANGED <<now, protectedKeys, singleFlightMap, cfg, bulkSyncExpirationTime, bulkFlight,
                 syncs, phase, cleanupIntervalId, intervalTimer, flowVars>>

\* executeWithTimeout's finally (clearTimeout), then the pipeline's
\* try/catch: options.errorFn = errorReturn with the starter's options, on a
\* cache whose logger field is lg
PipeContWith(lg) ==
  /\ HeadIs("pipeCont")
  /\ LET c == Head(mq).c
         res == Head(mq).res
         k == calls[c].key
         er == errorReturnLogged(lg, store, now, res.err, calls[c].opts, k, calls[c].fetched)
     IN
     /\ calls' = [calls EXCEPT ![c].timer = IF @ = "armed" THEN "cleared" ELSE @,
                               ![c].deadline = 0,
                               \* history: the value the fallback was cached over
                               ![c].replaced = IF res.kind = "error" /\ er.result.kind = "value"
                                                    /\ k \in DOMAIN store
                                                 THEN <<store[k].value>> ELSE @]
     /\ store' = IF res.kind = "error" THEN er.store ELSE store
     /\ written' = IF res.kind = "error" /\ er.result.kind = "value"
                     THEN Track(store', k, Write("fallback", c, er.result.val,
                                  now + (IF calls[c].opts.errorTtl = <<>> THEN DefaultErrorTtl
                                         ELSE calls[c].opts.errorTtl[1])))
                     ELSE Track(store', "", NoWrite)
     /\ mq' = Append(Tail(mq), Job("finally", c, IF res.kind = "value" THEN res ELSE er.result))
     /\ last' = NoOp
  /\ UNCHANGED <<now, protectedKeys, singleFlightMap, cfg, bulkSyncExpirationTime, bulkFlight,
                 syncs, phase, cleanupIntervalId, intervalTimer, flowVars>>

PipeCont ==
  /\ PipeContWith(logger)
  /\ logs' = logs \o (IF Head(mq).res.kind = "error"
                        THEN LoggerError(logger, "getOrSet") ELSE <<>>)
  /\ UNCHANGED logger

\* pipeline().finally: drop the single-flight entry; every caller holding
\* the promise settles with its outcome
Finally ==
  /\ HeadIs("finally")
  /\ LET c == Head(mq).c
         res == Head(mq).res
         k == calls[c].key
     IN
     /\ singleFlightMap' = [singleFlightMap EXCEPT ![String(k)] = 0]
     /\ calls' = [i \in 1..Len(calls) |->
                    IF calls[i].pc = "wait" /\ calls[i].leader = c
                      THEN [calls[i] EXCEPT !.pc = "done", !.result = res]
                      ELSE calls[i]]
     /\ last' = NoOp
  /\ mq' = Tail(mq)
  /\ UNCHANGED <<now, store, protectedKeys, written, cfg, syncVars, lifeVars, flowVars>>

\* the cache under getOrSet calls and writes of the loaded key
Next ==
  \/ Tick
  \/ \E k \in cfg.keys, v \in cfg.values, t \in cfg.ttls : Set(k, v, t)
  \/ \E k \in cfg.keys, o \in cfg.options : GetOrSet(k, o)
  \/ Resume
  \/ \E c \in 1..MaxCalls, v \in cfg.loads : LoaderResolve(c, v)
  \/ \E c \in 1..MaxCalls : LoaderReject(c)
  \/ FnCont
  \/ \E c \in 1..MaxCalls : TimerFire(c)
  \/ PipeCont
  \/ Finally

\* a single getOrSet call in every configuration
Spec == InitSolo /\ [][Next]_vars

\* concurrent getOrSet calls
SpecShared == InitShared /\ [][Next]_vars

\* concurrent getOrSet calls for different keys
SpecKeys == InitKeys /\ [][Next]_vars

\* the synchronous store operations with protected keys
NextStore ==
  \/ Tick
  \/ \E k \in Keys, v \in cfg.values, t \in cfg.ttls : Set(k, v, t)
  \/ \E k \in Keys, r \in BOOLEAN : Get(k, r)
  \/ \E k \in Keys : GetComprehensive(k)
  \/ \E k \in Keys, f \in BOOLEAN : Delete(k, f)
  \/ \E f \in BOOLEAN : Clear(f)
  \/ \E f \in BOOLEAN : PurgeExpired(f)
  \/ BulkGet
  \/ \E k \in Keys : Invalidate(k)
  \/ \E ks \in (SUBSET Keys) \ {{}} : AddProtectedKeys(ks)
  \/ \E ks \in (SUBSET Keys) \ {{}} : RemoveProtectedKeys(ks)

SpecStore == InitStore /\ [][NextStore]_vars

\* ---- construction, periodic cleanup and dispose --------------------------
\* options.autoCleanupInterval: undefined, a number, NaN or an infinity
Num(n) == [kind |-> "number", n |-> n]
IntervalArgs ==
  {[kind |-> k, n |-> 0] : k \in {"undefined", "NaN", "Infinity", "-Infinity"}}
    \cup {Num(n) : n \in {-1, 0, 1, 2}}

\* JavaScript truthiness of an optional number
Truthy(x) == x.kind \in {"Infinity", "-Infinity"} \/ (x.kind = "number" /\ x.n /= 0)
\* Number.isFinite(x)
IsFinite(x) == x.kind = "number"
\* x <= 0
NotPositive(x) == x.kind = "-Infinity" \/ (x.kind = "number" /\ x.n <= 0)

InitLife ==
  /\ Empty
  /\ cfg = [maxCalls |-> 0, options |-> {}, values |-> {1}, ttls |-> {<<0>>, <<1>>},
            loads |-> {}]
  /\ phase = "new"
  /\ logger = FALSE
  /\ cleanupIntervalId = 0
  /\ intervalTimer = NoTimer
  /\ CacheFlowControl

\* new LilypadCache(ttl, {logger, autoCleanupInterval})
Construct(withLogger, autoCleanupInterval) ==
  /\ phase = "new"
  /\ IF Truthy(autoCleanupInterval)
       THEN IF ~IsFinite(autoCleanupInterval) \/ NotPositive(autoCleanupInterval)
              THEN /\ phase' = "failed"
                   /\ UNCHANGED <<cleanupIntervalId, intervalTimer>>
              ELSE /\ phase' = "live"
                   /\ cleanupIntervalId' = 1
                   /\ intervalTimer' = [active |-> TRUE, period |-> autoCleanupInterval.n,
                                        next |-> now + autoCleanupInterval.n]
       ELSE /\ phase' = "live"
            /\ UNCHANGED <<cleanupIntervalId, intervalTimer>>
  /\ logger' = withLogger
  /\ last' = Op("construct", "", withLogger,
                [type |-> autoCleanupInterval.kind, value |-> autoCleanupInterval.n,
                 expirationTime |-> 0])
  /\ UNCHANGED <<now, store, protectedKeys, singleFlightMap, calls, mq, written, cfg, syncVars, flowVars>>

\* an interval callback that purges with force
AutoPurgeForced ==
  /\ intervalTimer.active
  /\ mq = <<>>
  /\ now >= intervalTimer.next
  /\ intervalTimer' = [intervalTimer EXCEPT !.next = @ + intervalTimer.period]
  /\ store' = DeleteAll(store, protectedKeys,
                        {k \in DOMAIN store : now >= store[k].expirationTime}, TRUE)
  /\ last' = Op("autoPurge", "", FALSE,
                [type |-> "removed", expirationTime |-> 0,
                 value |-> Cardinality(DOMAIN store \ DOMAIN store')])
  /\ written' = Track(store', "", NoWrite)
  /\ UNCHANGED <<now, protectedKeys, singleFlightMap, calls, mq, cfg, syncVars, phase, logger,
                 cleanupIntervalId, flowVars>>

\* the interval's callback: () => this.purgeExpired()
AutoPurge ==
  /\ intervalTimer.active
  /\ mq = <<>>
  /\ now >= intervalTimer.next
  /\ intervalTimer' = [intervalTimer EXCEPT !.next = @ + intervalTimer.period]
  /\ store' = DeleteAll(store, protectedKeys,
                        {k \in DOMAIN store : now >= store[k].expirationTime}, FALSE)
  /\ last' = Op("autoPurge", "", FALSE,
                [type |-> "removed", expirationTime |-> 0,
                 value |-> Cardinality(DOMAIN store \ DOMAIN store')])
  /\ written' = Track(store', "", NoWrite)
  /\ UNCHANGED <<now, protectedKeys, singleFlightMap, calls, mq, cfg, syncVars, phase, logger,
                 cleanupIntervalId, flowVars>>

StopCleanupInterval ==
  /\ IF cleanupIntervalId /= 0
       THEN /\ intervalTimer' = NoTimer
            /\ cleanupIntervalId' = 0
       ELSE UNCHANGED <<intervalTimer, cleanupIntervalId>>
  /\ last' = Op("stopCleanupInterval", "", FALSE, NoRet)
  /\ UNCHANGED <<now, store, protectedKeys, singleFlightMap, calls, mq, written, cfg, syncVars,
                 phase, logger, flowVars>>

\* a dispose that clears without force
DisposeUnforced ==
  /\ logger' = FALSE
  /\ IF cleanupIntervalId /= 0
       THEN /\ intervalTimer' = NoTimer
            /\ cleanupIntervalId' = 0
       ELSE UNCHANGED <<intervalTimer, cleanupIntervalId>>
  /\ store' = DeleteAll(store, protectedKeys, DOMAIN store, FALSE)
  /\ phase' = "disposed"
  /\ last' = Op("dispose", "", cleanupIntervalId /= 0,
                [type |-> "protected entries", expirationTime |-> 0,
                 value |-> Cardinality(DOMAIN store \cap protectedKeys)])
  /\ written' = Track(store', "", NoWrite)
  /\ UNCHANGED <<now, protectedKeys, singleFlightMap, calls, mq, cfg, syncVars, flowVars>>

\* dispose(): detach the logger, stopCleanupInterval(), clear({force: true})
Dispose ==
  /\ logger' = FALSE
  /\ IF cleanupIntervalId /= 0
       THEN /\ intervalTimer' = NoTimer
            /\ cleanupIntervalId' = 0
       ELSE UNCHANGED <<intervalTimer, cleanupIntervalId>>
  /\ store' = DeleteAll(store, protectedKeys, DOMAIN store, TRUE)
  /\ phase' = "disposed"
  /\ last' = Op("dispose", "", cleanupIntervalId /= 0,
                [type |-> "protected entries", expirationTime |-> 0,
                 value |-> Cardinality(DOMAIN store \cap protectedKeys)])
  /\ written' = Track(store', "", NoWrite)
  /\ UNCHANGED <<now, protectedKeys, singleFlightMap, calls, mq, cfg, syncVars, flowVars>>

Usable == phase \in {"live", "disposed"}

\* a cache from its construction to its disposal and after
NextLife ==
  \/ \E l \in BOOLEAN, a \in IntervalArgs : Construct(l, a)
  \/ Tick
  \/ Usable /\ \E k \in Keys, v \in cfg.values, t \in cfg.ttls : Set(k, v, t)
  \/ Usable /\ \E ks \in (SUBSET Keys) \ {{}} : AddProtectedKeys(ks)
  \/ Usable /\ AutoPurge
  \/ Usable /\ StopCleanupInterval
  \/ Usable /\ Dispose

SpecLife == InitLife /\ [][NextLife]_vars

\* the same cache on a runtime whose clock advances and whose event loop
\* runs the interval's callback when it is due
SpecLifeFair ==
  /\ InitLife
  /\ [][NextLife]_vars
  /\ WF_vars(Tick)
  /\ WF_vars(Usable /\ AutoPurge)

\* ---- LilypadFlowControl.rateLimit ----------------------------------------
\* Date.now() at the model's time 0: the clock counts from 1970, far more
\* than any rate window before the program starts
Epoch == 5
DateNow(t) == Epoch + t

\* the instance's rate: undefined or a window
Rates == {<<>>, <<1>>, <<2>>}

\* `${consumerIdentifier}#${functionIdentifier}`
RateKey(c, f) == c \o <<"#">> \o f

MapGet(m, k) == IF k \in DOMAIN m THEN <<m[k]>> ELSE <<>>

\* the outcome of a rateLimit call: it passed, or threw naming a key
RatePassed == [passed |-> TRUE, key |-> <<>>]
RateExceeded(rateKey) == [passed |-> FALSE, key |-> rateKey]

\* the pairs rateLimit is called for directly
RatePairs ==
  {<<<<"a">>, <<"b">>>>, <<<<"b">>, <<"a">>>>,
   <<<<"a", "#", "a">>, <<"a">>>>, <<<<"a">>, <<"a", "#", "a">>>>}

\* rateLimit(consumerIdentifier, functionIdentifier) at Date.now() = t
rateLimit(map, rate, t, c, f) ==
  IF rate /= <<>>
    THEN LET rateKey == RateKey(c, f)
             lastExecution == NullishCoalesce(MapGet(map, rateKey), 0)
         IN  IF t - lastExecution < rate[1]
               THEN [rateMap |-> map, outcome |-> RateExceeded(rateKey)]
               ELSE [rateMap |-> MapSet(map, rateKey, t), outcome |-> RatePassed]
    ELSE [rateMap |-> map, outcome |-> RatePassed]

\* the history of passed calls after a rateLimit call for (c, f)
Passed(c, f, outcome) ==
  IF outcome.passed THEN [passed EXCEPT ![<<c, f>>] = <<now>>] ELSE passed

InitRate ==
  /\ Empty
  /\ Constructed
  /\ cfg = [maxCalls |-> 0, options |-> {}, values |-> {}, ttls |-> {}, loads |-> {}]
  /\ fc \in {[rate |-> r, timeout |-> <<>>, retries |-> <<>>] : r \in Rates}
  /\ rateMap = <<>>
  /\ passed = [p \in Pairs |-> <<>>]
  /\ ops = <<>>

\* a direct call of rateLimit(c, f)
RateLimit(c, f) ==
  LET r == rateLimit(rateMap, fc.rate, DateNow(now), c, f)
  IN  /\ rateMap' = r.rateMap
      /\ passed' = Passed(c, f, r.outcome)
      /\ last' = Op("rateLimit", "", r.outcome.passed,
                    [pair |-> <<c, f>>, key |-> r.outcome.key])
      /\ UNCHANGED <<now, store, protectedKeys, singleFlightMap, calls, mq, written, cfg, syncVars,
                     lifeVars, fc, ops>>

NextRate ==
  \/ Tick
  \/ \E p \in RatePairs : RateLimit(p[1], p[2])

SpecRate == InitRate /\ [][NextRate]_vars

\* ---- LilypadFlowControl: executeWithRetries and executeFn -----------------
MaxOps == 2
MaxFlowTime == 6
\* the clock's bound under concurrent calls
MaxSharedTime == 3
\* the instance's timeout, in model time units
FlowTimeout == 1
\* 100 ms, the unit of the default backoff, as one model time unit
BackoffUnit == 1

\* options.retries and the instance's retries: undefined or a count
RetryArgs == {<<>>, <<0>>, <<1>>, <<2>>}
\* the most invocations one call makes: 1 + the largest retry count
MaxInvocations == 3
\* options.errorFn of a flow-control call; a value-returning one returns 0
FlowErrorFns == {[kind |-> "none", val |-> 0], [kind |-> "undefined", val |-> 0],
                 [kind |-> "throws", val |-> 0], [kind |-> "value", val |-> 0]}
\* options.backOffTime: absent, or (attempt) => 1
BackOffTimes == {"none", "custom"}
FlowOptions == [retries : RetryArgs, errorFn : FlowErrorFns, backOffTime : BackOffTimes]

\* invocation k of the operation resolves with the value k or rejects with
\* its own error
FnValue(k) == ValueResult(k)
FnError(k) == [kind |-> "error", val |-> k, err |-> "fn"]
TimeoutError == ErrorResult("timeout")
RateLimitError == ErrorResult("rate limit")

\* options.backOffTime ? options.backOffTime(attempts) : Math.pow(2, attempts) * 100
BackoffTimeValue(backOffTime, attempts) ==
  IF backOffTime = "custom" THEN 1 ELSE (2 ^ attempts) * BackoffUnit

\* options.retries ?? this.retries ?? 0
EffectiveRetries(op) == NullishCoalesce(op.opts.retries, NullishCoalesce(fc.retries, 0))

\* a call on the flow control, before it has done anything
FlowOp(kind, c, f, options) ==
  [kind |-> kind, c |-> c, f |-> f, opts |-> options,
   pc |-> "rate", leader |-> 0, result |-> NoResult,
   attempts |-> 0,        \* executeWithRetries' counter
   invoked |-> 0,         \* history: invocations of the operation so far
   running |-> {},        \* history: the invocations that have not settled
   timer |-> "none", deadline |-> 0,
   wake |-> 0,            \* when the backoff's setTimeout is due
   backoffs |-> <<>>,     \* history: the arguments backOffTime was called with
   errorFnCalls |-> 0,    \* history: applications of errorFn
   lastError |-> NoResult, \* history: the outcome of the latest failed attempt
   pending |-> 0,         \* history: the call whose pipeline for f was pending at call time
   settledBefore |-> 0,   \* history: the latest pipeline for f, if every earlier call for f had settled at call time
   started |-> 0,         \* history: when the latest invocation was made
   late |-> {},           \* history: the invocations that settled after their timeout had fired
   afterDone |-> {},      \* history: the invocations that settled after the call had settled
   joinedAt |-> "none"    \* history: where the pipeline the call joined was at that moment
  ]

\* the executeFn calls for function identifier f so far
CallsFor(f) == {i \in 1..Len(ops) : ops[i].kind = "executeFn" /\ ops[i].f = f}

\* the latest call that ran a pipeline for f, if every call for f so far has
\* settled (0 otherwise, and if there is none)
SettledPipeline(f) ==
  LET ran == {i \in CallsFor(f) : ops[i].leader = i}
  IN  IF ran /= {} /\ \A i \in CallsFor(f) : ops[i].pc = "done"
        THEN CHOOSE i \in ran : \A j \in ran : j <= i
        ELSE 0

\* the call whose pipeline for function identifier f has started and not
\* settled (0 if none)
PendingPipeline(f) ==
  First({i \in 1..Len(ops) : ops[i].kind = "executeFn" /\ ops[i].f = f /\ ops[i].leader = i
                               /\ ops[i].pc \in {"attempt", "backoff"}})

\* an executionFn that races only the first attempt against the timeout
InvokeTimedOnce(op) ==
  LET timed == op.kind \in {"executeFn", "executeWithTimeout"} /\ fc.timeout /= <<>>
                 /\ op.invoked = 0
  IN  [op EXCEPT !.pc = "attempt",
                 !.invoked = @ + 1,
                 !.started = now,
                 !.running = @ \cup {op.invoked + 1},
                 !.timer = IF timed THEN "armed" ELSE "none",
                 !.deadline = IF timed THEN now + fc.timeout[1] ELSE 0]

\* executionFn(): invoke the operation, under executeWithTimeout when the
\* call is an executeFn and the instance has a timeout
Invoke(op) ==
  LET timed == op.kind \in {"executeFn", "executeWithTimeout"} /\ fc.timeout /= <<>>
  IN  [op EXCEPT !.pc = "attempt",
                 !.invoked = @ + 1,
                 !.started = now,
                 !.running = @ \cup {op.invoked + 1},
                 !.timer = IF timed THEN "armed" ELSE "none",
                 !.deadline = IF timed THEN now + fc.timeout[1] ELSE 0]

InitFlowControl ==
  /\ NoSync
  /\ now = 0
  /\ store = <<>>
  /\ protectedKeys = {}
  /\ singleFlightMap = [f \in Ids |-> 0]
  /\ calls = <<>>
  /\ mq = <<>>
  /\ last = NoOp
  /\ written = [k \in Keys |-> NoWrite]
  /\ Constructed
  /\ rateMap = <<>>
  /\ passed = [p \in Pairs |-> <<>>]
  /\ ops = <<>>

\* one call, with every option, on an instance without rate
InitRetry ==
  /\ InitFlowControl
  /\ cfg = [maxOps |-> 1, maxTime |-> MaxFlowTime,
            kinds |-> {"executeFn", "executeWithRetries"},
            pairs |-> {<<<<"a">>, <<"b">>>>}, options |-> FlowOptions]
  /\ fc \in [rate : {<<>>}, timeout : {<<>>, <<FlowTimeout>>}, retries : {<<>>, <<1>>, <<2>>}]

\* the options of concurrent callers: none, or a retry with a custom backoff
\* and a value-returning errorFn
SharedFlowOptions ==
  {[retries |-> <<>>, errorFn |-> [kind |-> "none", val |-> 0], backOffTime |-> "none"],
   [retries |-> <<1>>, errorFn |-> [kind |-> "value", val |-> 0], backOffTime |-> "custom"]}

\* concurrent executeFn calls: two consumers of one function and one of
\* another, on an instance with or without rate and timeout
InitFlow ==
  /\ InitFlowControl
  /\ cfg = [maxOps |-> MaxOps, maxTime |-> MaxSharedTime,
            kinds |-> {"executeFn", "executeWithRetries"},
            pairs |-> {<<<<"a">>, <<"a">>>>, <<<<"b">>, <<"a">>>>, <<<<"a">>, <<"b">>>>},
            options |-> SharedFlowOptions]
  /\ fc \in [rate : {<<>>, <<2>>}, timeout : {<<>>, <<FlowTimeout>>}, retries : {<<>>}]

FlowTick ==
  /\ now < cfg.maxTime
  /\ now' = now + 1
  /\ last' = NoOp
  /\ UNCHANGED <<store, protectedKeys, singleFlightMap, calls, mq, written, cfg, syncVars, lifeVars,
                 flowVars>>

\* executeWithRetries(options): the first invocation is made at once
ExecuteWithRetries(options) ==
  /\ Len(ops) < cfg.maxOps
  /\ "executeWithRetries" \in cfg.kinds
  /\ ops' = Append(ops, Invoke(FlowOp("executeWithRetries", <<>>, <<>>, options)))
  /\ last' = NoOp
  /\ UNCHANGED <<now, store, protectedKeys, singleFlightMap, calls, mq, written, cfg, syncVars,
                 lifeVars, fc, rateMap, passed>>

\* an executeFn that looks the function up in the single-flight map first
\* and checks the rate only when nothing is in flight
ExecuteFnLookupFirst(c, f, options) ==
  LET r == IF InFlight(singleFlightMap, f)
             THEN [rateMap |-> rateMap, outcome |-> RatePassed]
             ELSE rateLimit(rateMap, fc.rate, DateNow(now), c, f)
  IN  /\ Len(ops) < cfg.maxOps
      /\ "executeFn" \in cfg.kinds
      /\ rateMap' = r.rateMap
      /\ passed' = Passed(c, f, r.outcome)
      /\ ops' = Append(ops, [FlowOp("executeFn", c, f, options)
                               EXCEPT !.pending = PendingPipeline(f),
                                      !.settledBefore = SettledPipeline(f)])
      /\ mq' = Append(mq, Job("flowResume", Len(ops) + 1,
                              IF r.outcome.passed THEN NoResult ELSE RateLimitError))
      /\ last' = NoOp
      /\ UNCHANGED <<now, store, protectedKeys, singleFlightMap, calls, written, cfg, syncVars,
                     lifeVars, fc>>

\* executeFn up to its first suspension: rateLimit runs at once, and the
\* call resumes (or throws) once the awaited promise has settled
ExecuteFn(c, f, options) ==
  LET r == rateLimit(rateMap, fc.rate, DateNow(now), c, f)
  IN  /\ Len(ops) < cfg.maxOps
      /\ "executeFn" \in cfg.kinds
      /\ rateMap' = r.rateMap
      /\ passed' = Passed(c, f, r.outcome)
      /\ ops' = Append(ops, [FlowOp("executeFn", c, f, options)
                               EXCEPT !.pending = PendingPipeline(f),
                                      !.settledBefore = SettledPipeline(f)])
      /\ mq' = Append(mq, Job("flowResume", Len(ops) + 1,
                              IF r.outcome.passed THEN NoResult ELSE RateLimitError))
      /\ last' = NoOp
      /\ UNCHANGED <<now, store, protectedKeys, singleFlightMap, calls, written, cfg, syncVars,
                     lifeVars, fc>>

\* an executeFn that goes on after a rate-limit rejection
FlowResumeUnchecked ==
  /\ HeadIs("flowResume")
  /\ LET i == Head(mq).c
         f == ops[i].f
     IN  IF InFlight(singleFlightMap, f)
           THEN /\ ops' = [ops EXCEPT ![i].pc = "wait", ![i].leader = singleFlightMap[f],
                                       ![i].joinedAt = ops[singleFlightMap[f]].pc]
                /\ UNCHANGED singleFlightMap
           ELSE /\ ops' = [ops EXCEPT ![i] = Invoke([@ EXCEPT !.leader = i])]
                /\ singleFlightMap' = [singleFlightMap EXCEPT ![f] = i]
  /\ mq' = Tail(mq)
  /\ last' = NoOp
  /\ UNCHANGED <<now, store, protectedKeys, calls, written, cfg, syncVars, lifeVars, fc, rateMap,
                 passed>>

\* an executeFn whose single-flight is keyed by consumer and function
FlowResumePerConsumer ==
  /\ HeadIs("flowResume")
  /\ LET i == Head(mq).c
         res == Head(mq).res
         f == ops[i].f
     IN  IF res.kind = "error"
           THEN /\ ops' = [ops EXCEPT ![i].pc = "done", ![i].result = res]
                /\ UNCHANGED singleFlightMap
           ELSE IF InFlight(singleFlightMap, f) /\ ops[singleFlightMap[f]].c = ops[i].c
             THEN /\ ops' = [ops EXCEPT ![i].pc = "wait", ![i].leader = singleFlightMap[f],
                                       ![i].joinedAt = ops[singleFlightMap[f]].pc]
                  /\ UNCHANGED singleFlightMap
             ELSE /\ ops' = [ops EXCEPT ![i] = Invoke([@ EXCEPT !.leader = i])]
                  /\ singleFlightMap' = [singleFlightMap EXCEPT ![f] = i]
  /\ mq' = Tail(mq)
  /\ last' = NoOp
  /\ UNCHANGED <<now, store, protectedKeys, calls, written, cfg, syncVars, lifeVars, fc, rateMap,
                 passed>>

\* an executeFn that joins a pipeline only while one of its attempts runs
FlowResumeAttemptOnly ==
  /\ HeadIs("flowResume")
  /\ LET i == Head(mq).c
         res == Head(mq).res
         f == ops[i].f
     IN  IF res.kind = "error"
           THEN /\ ops' = [ops EXCEPT ![i].pc = "done", ![i].result = res]
                /\ UNCHANGED singleFlightMap
           ELSE IF InFlight(singleFlightMap, f) /\ ops[singleFlightMap[f]].pc = "attempt"
             THEN /\ ops' = [ops EXCEPT ![i].pc = "wait", ![i].leader = singleFlightMap[f],
                                       ![i].joinedAt = ops[singleFlightMap[f]].pc]
                  /\ UNCHANGED singleFlightMap
             ELSE /\ ops' = [ops EXCEPT ![i] = Invoke([@ EXCEPT !.leader = i])]
                  /\ singleFlightMap' = [singleFlightMap EXCEPT ![f] = i]
  /\ mq' = Tail(mq)
  /\ last' = NoOp
  /\ UNCHANGED <<now, store, protectedKeys, calls, written, cfg, syncVars, lifeVars, fc, rateMap,
                 passed>>

\* executeFn after `await this.rateLimit(...)`: rethrow its error, join the
\* in-flight promise, or start the pipeline and register it
FlowResume ==
  /\ HeadIs("flowResume")
  /\ LET i == Head(mq).c
         res == Head(mq).res
         f == ops[i].f
     IN  IF res.kind = "error"
           THEN /\ ops' = [ops EXCEPT ![i].pc = "done", ![i].result = res]
                /\ UNCHANGED singleFlightMap
           ELSE IF InFlight(singleFlightMap, f)
             THEN /\ ops' = [ops EXCEPT ![i].pc = "wait", ![i].leader = singleFlightMap[f],
                                       ![i].joinedAt = ops[singleFlightMap[f]].pc]
                  /\ UNCHANGED singleFlightMap
             ELSE /\ ops' = [ops EXCEPT ![i] = Invoke([@ EXCEPT !.leader = i])]
                  /\ singleFlightMap' = [singleFlightMap EXCEPT ![f] = i]
  /\ mq' = Tail(mq)
  /\ last' = NoOp
  /\ UNCHANGED <<now, store, protectedKeys, calls, written, cfg, syncVars, lifeVars, fc, rateMap,
                 passed>>

\* the awaiting side hears of invocation k's outcome only if k is the
\* current attempt and its race is still open
Awaited(op, k) == op.pc = "attempt" /\ k = op.invoked /\ op.timer /= "fired"

\* invocation k of the operation has settled; it is late if the timeout it
\* was raced against had fired before
InvocationSettled(op, k) ==
  [op EXCEPT !.running = @ \ {k},
             !.late = IF k < op.invoked \/ op.timer = "fired" THEN @ \cup {k} ELSE @,
             !.afterDone = IF op.pc = "done" THEN @ \cup {k} ELSE @]

\* invocation k of the operation of call i resolves
OpResolve(i, k) ==
  /\ i \in 1..Len(ops)
  /\ k \in ops[i].running
  /\ ops' = [ops EXCEPT ![i] = InvocationSettled(@, k)]
  /\ mq' = IF Awaited(ops[i], k) THEN Append(mq, Job("attemptCont", i, FnValue(k))) ELSE mq
  /\ last' = NoOp
  /\ UNCHANGED <<now, store, protectedKeys, singleFlightMap, calls, written, cfg, syncVars, lifeVars,
                 fc, rateMap, passed>>

\* invocation k of the operation of call i rejects
OpReject(i, k) ==
  /\ i \in 1..Len(ops)
  /\ k \in ops[i].running
  /\ ops' = [ops EXCEPT ![i] = InvocationSettled(@, k)]
  /\ mq' = IF Awaited(ops[i], k) THEN Append(mq, Job("attemptCont", i, FnError(k))) ELSE mq
  /\ last' = NoOp
  /\ UNCHANGED <<now, store, protectedKeys, singleFlightMap, calls, written, cfg, syncVars, lifeVars,
                 fc, rateMap, passed>>

\* a timeout that cancels the operation it was raced against
FlowTimerFireCancel(i) ==
  /\ i \in 1..Len(ops)
  /\ mq = <<>>
  /\ ops[i].timer = "armed"
  /\ now >= ops[i].deadline
  /\ ops' = [ops EXCEPT ![i].timer = "fired", ![i].deadline = 0,
                        ![i].running = @ \ {ops[i].invoked}]
  /\ mq' = <<Job("attemptCont", i, TimeoutError)>>
  /\ last' = NoOp
  /\ UNCHANGED <<now, store, protectedKeys, singleFlightMap, calls, written, cfg, syncVars, lifeVars,
                 fc, rateMap, passed>>

\* a timeout that waits for the operation to settle before it fires
FlowTimerFireSettled(i) ==
  /\ i \in 1..Len(ops)
  /\ mq = <<>>
  /\ ops[i].timer = "armed"
  /\ now >= ops[i].deadline
  /\ ops[i].running = {}
  /\ ops' = [ops EXCEPT ![i].timer = "fired", ![i].deadline = 0]
  /\ mq' = <<Job("attemptCont", i, TimeoutError)>>
  /\ last' = NoOp
  /\ UNCHANGED <<now, store, protectedKeys, singleFlightMap, calls, written, cfg, syncVars, lifeVars,
                 fc, rateMap, passed>>

\* the timer of executeWithTimeout fires and rejects the race
FlowTimerFire(i) ==
  /\ i \in 1..Len(ops)
  /\ mq = <<>>
  /\ ops[i].timer = "armed"
  /\ now >= ops[i].deadline
  /\ ops' = [ops EXCEPT ![i].timer = "fired", ![i].deadline = 0]
  /\ mq' = <<Job("attemptCont", i, TimeoutError)>>
  /\ last' = NoOp
  /\ UNCHANGED <<now, store, protectedKeys, singleFlightMap, calls, written, cfg, syncVars, lifeVars,
                 fc, rateMap, passed>>

\* errorFn applied to an error: a defined value is returned, otherwise the
\* error is rethrown; an errorFn that throws replaces the error
ApplyErrorFn(errorFn, error) ==
  IF errorFn.kind = "value" THEN ValueResult(errorFn.val)
  ELSE IF errorFn.kind = "throws" THEN ErrorResult("errorFn")
  ELSE error

\* the pipeline of call i has the outcome res: executeWithRetries returns to
\* its caller; executeFn's pipeline goes on to its finally
Settle(op, i, res) ==
  IF op.kind = "executeFn"
    THEN [ops |-> [ops EXCEPT ![i] = [op EXCEPT !.pc = "settling"]],
          jobs |-> <<Job("flowFinally", i, res)>>]
    ELSE [ops |-> [ops EXCEPT ![i] = [op EXCEPT !.pc = "done", !.result = res]],
          jobs |-> <<>>]

\* an errorFn that is applied after every failed attempt
AttemptFailedEager(op, i, res) ==
  LET failed == [op EXCEPT !.lastError = res]
      applied == [failed EXCEPT !.errorFnCalls = IF op.opts.errorFn.kind = "none" THEN @ ELSE @ + 1]
      handled == ApplyErrorFn(op.opts.errorFn, res)
  IN  IF op.attempts >= EffectiveRetries(op) \/ handled.kind = "value"
        THEN Settle(applied, i, handled)
        ELSE [ops |-> [ops EXCEPT ![i] =
                         [applied EXCEPT !.attempts = @ + 1,
                                         !.backoffs = Append(@, op.attempts + 1),
                                         !.pc = "backoff",
                                         !.wake = now + BackoffTimeValue(op.opts.backOffTime,
                                                                         op.attempts + 1)]],
              jobs |-> <<>>]

\* a retry loop that gives up one attempt early
AttemptFailedEarly(op, i, res) ==
  LET failed == [op EXCEPT !.lastError = res]
  IN  IF op.attempts + 1 >= EffectiveRetries(op)
        THEN Settle([failed EXCEPT !.errorFnCalls =
                                     IF op.opts.errorFn.kind = "none" THEN @ ELSE @ + 1],
                    i, ApplyErrorFn(op.opts.errorFn, res))
        ELSE [ops |-> [ops EXCEPT ![i] =
                         [failed EXCEPT !.attempts = @ + 1,
                                        !.backoffs = Append(@, op.attempts + 1),
                                        !.pc = "backoff",
                                        !.wake = now + BackoffTimeValue(op.opts.backOffTime,
                                                                        op.attempts + 1)]],
              jobs |-> <<>>]

\* a retry loop that calls the backoff function before counting the attempt
AttemptFailedUncounted(op, i, res) ==
  LET failed == [op EXCEPT !.lastError = res]
  IN  IF op.attempts >= EffectiveRetries(op)
        THEN Settle([failed EXCEPT !.errorFnCalls =
                                     IF op.opts.errorFn.kind = "none" THEN @ ELSE @ + 1],
                    i, ApplyErrorFn(op.opts.errorFn, res))
        ELSE [ops |-> [ops EXCEPT ![i] =
                         [failed EXCEPT !.attempts = @ + 1,
                                        !.backoffs = Append(@, op.attempts),
                                        !.pc = "backoff",
                                        !.wake = now + BackoffTimeValue(op.opts.backOffTime,
                                                                        op.attempts)]],
              jobs |-> <<>>]

\* the catch of an attempt: with retries exhausted apply errorFn and settle,
\* otherwise count the attempt and wait for the backoff
AttemptFailed(op, i, res) ==
  LET failed == [op EXCEPT !.lastError = res]
  IN  IF op.attempts >= EffectiveRetries(op)
        THEN Settle([failed EXCEPT !.errorFnCalls =
                                     IF op.opts.errorFn.kind = "none" THEN @ ELSE @ + 1],
                    i, ApplyErrorFn(op.opts.errorFn, res))
        ELSE [ops |-> [ops EXCEPT ![i] =
                         [failed EXCEPT !.attempts = @ + 1,
                                        !.backoffs = Append(@, op.attempts + 1),
                                        !.pc = "backoff",
                                        !.wake = now + BackoffTimeValue(op.opts.backOffTime,
                                                                        op.attempts + 1)]],
              jobs |-> <<>>]

\* an executeWithTimeout without its finally: the timer stays armed
AttemptContKeepTimer ==
  /\ HeadIs("attemptCont")
  /\ LET i == Head(mq).c
         res == Head(mq).res
         op == ops[i]
         next == IF res.kind = "value" \/ op.kind = "executeWithTimeout"
                   THEN Settle(op, i, res)
                   ELSE AttemptFailed(op, i, res)
     IN  /\ ops' = next.ops
         /\ mq' = Tail(mq) \o next.jobs
  /\ last' = NoOp
  /\ UNCHANGED <<now, store, protectedKeys, singleFlightMap, calls, written, cfg, syncVars, lifeVars,
                 fc, rateMap, passed>>

\* an attempt's executionFn has settled: clearTimeout, then return its value
\* or handle its error; a direct executeWithTimeout call ends with the outcome
AttemptCont ==
  /\ HeadIs("attemptCont")
  /\ LET i == Head(mq).c
         res == Head(mq).res
         op == [ops[i] EXCEPT !.timer = IF @ = "armed" THEN "cleared" ELSE @, !.deadline = 0]
         next == IF res.kind = "value" \/ op.kind = "executeWithTimeout"
                   THEN Settle(op, i, res)
                   ELSE AttemptFailed(op, i, res)
     IN  /\ ops' = next.ops
         /\ mq' = Tail(mq) \o next.jobs
  /\ last' = NoOp
  /\ UNCHANGED <<now, store, protectedKeys, singleFlightMap, calls, written, cfg, syncVars, lifeVars,
                 fc, rateMap, passed>>

\* the backoff's setTimeout fires: the loop invokes executionFn again
BackoffFire(i) ==
  /\ i \in 1..Len(ops)
  /\ mq = <<>>
  /\ ops[i].pc = "backoff"
  /\ now >= ops[i].wake
  /\ ops' = [ops EXCEPT ![i] = Invoke([@ EXCEPT !.wake = 0])]
  /\ last' = NoOp
  /\ UNCHANGED <<now, store, protectedKeys, singleFlightMap, calls, mq, written, cfg, syncVars,
                 lifeVars, fc, rateMap, passed>>

\* a finally that keeps the single-flight entry of a pipeline that failed
FlowFinallyOnSuccess ==
  /\ HeadIs("flowFinally")
  /\ LET i == Head(mq).c
         res == Head(mq).res
     IN  /\ singleFlightMap' = IF res.kind = "value"
                                 THEN [singleFlightMap EXCEPT ![ops[i].f] = 0]
                                 ELSE singleFlightMap
         /\ ops' = [j \in 1..Len(ops) |->
                      IF ops[j].leader = i /\ ops[j].pc \in {"settling", "wait"}
                        THEN [ops[j] EXCEPT !.pc = "done", !.result = res]
                        ELSE ops[j]]
  /\ mq' = Tail(mq)
  /\ last' = NoOp
  /\ UNCHANGED <<now, store, protectedKeys, calls, written, cfg, syncVars, lifeVars, fc, rateMap,
                 passed>>

\* pipeline().finally: drop the single-flight entry; every caller holding
\* the promise settles with its outcome
FlowFinally ==
  /\ HeadIs("flowFinally")
  /\ LET i == Head(mq).c
         res == Head(mq).res
     IN  /\ singleFlightMap' = [singleFlightMap EXCEPT ![ops[i].f] = 0]
         /\ ops' = [j \in 1..Len(ops) |->
                      IF ops[j].leader = i /\ ops[j].pc \in {"settling", "wait"}
                        THEN [ops[j] EXCEPT !.pc = "done", !.result = res]
                        ELSE ops[j]]
  /\ mq' = Tail(mq)
  /\ last' = NoOp
  /\ UNCHANGED <<now, store, protectedKeys, calls, written, cfg, syncVars, lifeVars, fc, rateMap,
                 passed>>

NextFlow ==
  \/ FlowTick
  \/ \E o \in cfg.options : ExecuteWithRetries(o)
  \/ \E p \in cfg.pairs, o \in cfg.options : ExecuteFn(p[1], p[2], o)
  \/ FlowResume
  \/ \E i \in 1..MaxOps, k \in 1..MaxInvocations : OpResolve(i, k)
  \/ \E i \in 1..MaxOps, k \in 1..MaxInvocations : OpReject(i, k)
  \/ \E i \in 1..MaxOps : FlowTimerFire(i)
  \/ AttemptCont
  \/ \E i \in 1..MaxOps : BackoffFire(i)
  \/ FlowFinally

\* a single executeWithRetries or executeFn call in every configuration
SpecRetry == InitRetry /\ [][NextFlow]_vars

\* concurrent executeFn calls
SpecFlow == InitFlow /\ [][NextFlow]_vars

\* the options of a call that takes none
NoFlowOptions == [retries |-> <<>>, errorFn |-> [kind |-> "none", val |-> 0], backOffTime |-> "none"]

\* ---- executeFn on a runtime that runs its timers ------------------------------
\* the latest time at which a call is made
LastCallTime == 1
\* the clock's range: a call with one retry made at LastCallTime needs two
\* timeouts and one backoff (of one unit)
MaxLiveTime == LastCallTime + 2 * FlowTimeout + 1

\* concurrent executeFn calls for one function on an instance with a timeout,
\* with no retry or one retry
InitFlowFair ==
  /\ InitFlowControl
  /\ cfg = [maxOps |-> MaxOps, maxTime |-> MaxLiveTime, kinds |-> {"executeFn"},
            pairs |-> {<<<<"a">>, <<"a">>>>, <<<<"b">>, <<"a">>>>},
            options |-> SharedFlowOptions
                          \cup {[NoFlowOptions EXCEPT !.retries = <<1>>, !.backOffTime = "custom"]}]
  /\ fc = [rate |-> <<>>, timeout |-> <<FlowTimeout>>, retries |-> <<>>]

\* the clock of a runtime that runs promise jobs at once and a timer when it
\* is due: time does not pass while a promise job is pending, nor beyond the
\* due time of a pending timer
FlowTickOnTime ==
  /\ mq = <<>>
  /\ \A i \in 1..Len(ops) :
       /\ ops[i].timer = "armed" => now < ops[i].deadline
       /\ ops[i].pc = "backoff" => now < ops[i].wake
  /\ FlowTick

NextFlowFair ==
  \/ FlowTickOnTime
  \/ now <= LastCallTime /\ \E p \in cfg.pairs, o \in cfg.options : ExecuteFn(p[1], p[2], o)
  \/ FlowResume
  \/ \E i \in 1..MaxOps, k \in 1..MaxInvocations : OpResolve(i, k)
  \/ \E i \in 1..MaxOps, k \in 1..MaxInvocations : OpReject(i, k)
  \/ \E i \in 1..MaxOps : FlowTimerFire(i)
  \/ AttemptCont
  \/ \E i \in 1..MaxOps : BackoffFire(i)
  \/ FlowFinally

\* the event loop runs every pending promise job and every due timer, and
\* time passes; the operations themselves need never settle
SpecFlowFair ==
  /\ InitFlowFair
  /\ [][NextFlowFair]_vars
  /\ WF_vars(FlowTickOnTime)
  /\ WF_vars(FlowResume)
  /\ WF_vars(AttemptCont)
  /\ WF_vars(FlowFinally)
  /\ \A i \in 1..MaxOps : WF_vars(FlowTimerFire(i)) /\ WF_vars(BackoffFire(i))

\* direct executeWithTimeout calls on an instance with or without a timeout
InitTimeout ==
  /\ InitFlowControl
  /\ cfg = [maxOps |-> MaxOps, maxTime |-> MaxSharedTime, kinds |-> {"executeWithTimeout"},
            pairs |-> {}, options |-> {}]
  /\ fc \in [rate : {<<>>}, timeout : {<<>>, <<FlowTimeout>>, <<FlowTimeout + 1>>},
              retries : {<<>>}]

\* executeWithTimeout(executionFn): arm the timer if a timeout is configured
\* and invoke the operation
ExecuteWithTimeout ==
  /\ Len(ops) < cfg.maxOps
  /\ "executeWithTimeout" \in cfg.kinds
  /\ ops' = Append(ops, Invoke(FlowOp("executeWithTimeout", <<>>, <<>>, NoFlowOptions)))
  /\ last' = NoOp
  /\ UNCHANGED <<now, store, protectedKeys, singleFlightMap, calls, mq, written, cfg, syncVars,
                 lifeVars, fc, rateMap, passed>>

NextTimeout ==
  \/ FlowTick
  \/ ExecuteWithTimeout
  \/ \E i \in 1..MaxOps : OpResolve(i, 1)
  \/ \E i \in 1..MaxOps : OpReject(i, 1)
  \/ \E i \in 1..MaxOps : FlowTimerFire(i)
  \/ AttemptCont

SpecTimeout == InitTimeout /\ [][NextTimeout]_vars

\* ---- LilypadCache: bulk sync ----------------------------------------------
\* the most bulkSync calls, and the clock's bound under bulk syncs
MaxSyncs == 2
MaxSyncTime == 3
\* options.flowControlTimeout || 30000, the timeout of bulkSyncFlowControl
BulkSyncTimeout == 1
\* options.defaultBulkSyncTtl ?? ttl
DefaultBulkSyncTtl == 2
\* the value the sources return for a key; on a repeated key the first pair
\* carries SyncValue - 1
SyncValue == 2
\* what a source function resolves to: an array of [key, value] pairs
SyncData ==
  {<<>>, <<<<"k2", SyncValue>>>>, <<<<"k1", SyncValue - 1>>, <<"k1", SyncValue>>>>}
\* how a source function settles: with an array, with undefined, or it rejects
NoOutcome == [kind |-> "none", data |-> <<>>]
Data(d) == [kind |-> "data", data |-> d]
UndefinedData == [kind |-> "undefined", data |-> <<>>]
SourceError == [kind |-> "error", data |-> <<>>]

\* a window check that never finds the window open
WindowNever(t, expirationTime) == FALSE

\* Date.now() < this.bulkSyncExpirationTime
InSyncWindow(t, expirationTime) == t < expirationTime

\* a bulk sync that drops the entries the source did not return
RECURSIVE bulkSyncReplace(_, _, _)
bulkSyncReplace(s, expirationTime, data) ==
  IF data = <<>> THEN <<>>
  ELSE LET rest == bulkSyncReplace(s, expirationTime, SubSeq(data, 1, Len(data) - 1))
           pair == data[Len(data)]
       IN  MapSet(rest, pair[1], [value |-> pair[2], expirationTime |-> expirationTime])

\* for (const [key, value] of data ?? []) this.store.set(key, {value, expirationTime})
RECURSIVE bulkSyncSet(_, _, _)
bulkSyncSet(s, expirationTime, data) ==
  IF data = <<>> THEN s
  ELSE bulkSyncSet(MapSet(s, data[1][1], [value |-> data[1][2],
                                          expirationTime |-> expirationTime]),
                   expirationTime, Tail(data))

\* the keys of an array of pairs
PairKeys(data) == {data[n][1] : n \in 1..Len(data)}

\* the times at which a bulk sync has written its data so far
Completions == {syncs[i].completed[1] : i \in {j \in 1..Len(syncs) : syncs[j].completed /= <<>>}}

\* a store holding what set("k1", 1) at time 0 has written
StoreAfterSet == StoreSet(<<>>, 0, "k1", 1, <<>>)
WrittenAfterSet ==
  [k \in Keys |-> IF k = "k1" THEN Write("set", 0, 1, DefaultTtl) ELSE NoWrite]

\* the cache's inputs under bulk syncs: a cache that is empty or holds one
\* entry, sources that return any of SyncData, with or without
\* options.bulkSyncFn
InitSync ==
  /\ NoSync
  /\ now = 0
  /\ \/ store = <<>> /\ written = [k \in Keys |-> NoWrite]
     \/ store = StoreAfterSet /\ written = WrittenAfterSet
  /\ protectedKeys = {}
  /\ singleFlightMap = [f \in KeyStrings |-> 0]
  /\ calls = <<>>
  /\ mq = <<>>
  /\ last = NoOp
  /\ Constructed
  /\ CacheFlowControl
  /\ cfg \in {[maxCalls |-> 0, options |-> {}, values |-> {1}, ttls |-> {<<>>}, loads |-> {},
               keys |-> LoadKeys, string |-> StringKeys, maxTime |-> MaxSyncTime,
               maxSyncs |-> MaxSyncs, data |-> SyncData, bulkSyncFn |-> b] : b \in BOOLEAN}

\* the record of a call of bulkSync(syncFn), made by the caller itself or
\* (get) by bulkAsyncGet
SyncCall(syncFn, get) ==
  [syncFn |-> syncFn, pc |-> "rate", leader |-> 0, result |-> NoResult,
   get |-> get,    \* the call is bulkAsyncGet({doSync: true, syncFn})
   got |-> <<>>,   \* the map bulkAsyncGet returned, once it has
   fn |-> "none", src |-> "none", outcome |-> NoOutcome,
   timer |-> "none", deadline |-> 0,
   \* history: the calls that were pending at call time, the clock reading of
   \* the window check and the earlier completions at that moment, the source
   \* functions invoked in order, the time of the write and the store before
   \* and after it
   pendingAtIssue |-> {j \in 1..Len(syncs) : syncs[j].pc /= "done"},
   checked |-> <<>>, doneBefore |-> {}, invoked |-> <<>>,
   completed |-> <<>>, before |-> <<>>, after |-> <<>>, data |-> <<>>]

\* bulkSync(syncFn): executeFn of bulkSyncFlowControl, suspended at
\* `await this.rateLimit(...)` (no rate is configured)
BulkSync(syncFn) ==
  /\ Len(syncs) < cfg.maxSyncs
  /\ syncs' = Append(syncs, SyncCall(syncFn, FALSE))
  /\ mq' = Append(mq, Job("syncResume", Len(syncs) + 1, NoResult))
  /\ last' = NoOp
  /\ UNCHANGED <<now, store, protectedKeys, singleFlightMap, calls, written, cfg,
                 bulkSyncExpirationTime, bulkFlight, logs, lifeVars, flowVars>>

\* bulkAsyncGet({doSync: true, syncFn}), keys omitted: it calls
\* bulkSync(syncFn) and awaits it
BulkAsyncGet(syncFn) ==
  /\ Len(syncs) < cfg.maxSyncs
  /\ syncs' = Append(syncs, SyncCall(syncFn, TRUE))
  /\ mq' = Append(mq, Job("syncResume", Len(syncs) + 1, NoResult))
  /\ last' = NoOp
  /\ UNCHANGED <<now, store, protectedKeys, singleFlightMap, calls, written, cfg,
                 bulkSyncExpirationTime, bulkFlight, logs, lifeVars, flowVars>>

\* the source function a run of _bulkSync turns to first: syncFn if given,
\* else this.bulkSyncFn if configured
FirstSource(call) ==
  IF call.syncFn THEN "syncFn" ELSE IF cfg.bulkSyncFn THEN "bulkSyncFn" ELSE "none"

\* executeFn after the rate check: join the pending promise, or start the
\* pipeline: arm the timeout and run _bulkSync up to its first await (the
\* window check, then the call of the source function)
SyncResume ==
  /\ HeadIs("syncResume")
  /\ LET i == Head(mq).c
         skip == InSyncWindow(now, bulkSyncExpirationTime)
         src == FirstSource(syncs[i])
         run == [syncs[i] EXCEPT !.pc = "wait", !.leader = i, !.timer = "armed",
                                 !.deadline = now + BulkSyncTimeout,
                                 !.checked = <<now>>, !.doneBefore = Completions]
     IN
     IF bulkFlight /= 0
       THEN /\ syncs' = [syncs EXCEPT ![i].pc = "wait", ![i].leader = bulkFlight]
            /\ mq' = Tail(mq)
            /\ UNCHANGED bulkFlight
       ELSE /\ bulkFlight' = i
            /\ IF skip
                 THEN /\ syncs' = [syncs EXCEPT ![i] = [run EXCEPT !.fn = "skipped"]]
                      /\ mq' = Append(Tail(mq), Job("syncPipeCont", i, ValueResult(0)))
                 ELSE IF src = "none"
                   THEN /\ syncs' = [syncs EXCEPT ![i] = [run EXCEPT !.fn = "resumed",
                                                                     !.outcome = UndefinedData]]
                        /\ mq' = Append(Tail(mq), Job("syncCont", i, NoResult))
                   ELSE /\ syncs' = [syncs EXCEPT ![i] = [run EXCEPT !.fn = "awaiting",
                                                                     !.src = src,
                                                                     !.invoked = <<src>>]]
                        /\ mq' = Tail(mq)
  /\ last' = NoOp
  /\ UNCHANGED <<now, store, protectedKeys, singleFlightMap, calls, written, cfg,
                 bulkSyncExpirationTime, logs, lifeVars, flowVars>>

\* the source function awaited by bulkSync call i settles with the outcome o;
\* this.bulkSyncFn is awaited only for its array
SourceSettle(i, o) ==
  /\ i \in 1..Len(syncs)
  /\ syncs[i].fn = "awaiting"
  /\ o.kind = "undefined" => syncs[i].src = "syncFn"
  /\ syncs' = [syncs EXCEPT ![i].fn = "resumed", ![i].outcome = o]
  /\ mq' = Append(mq, Job("syncCont", i, NoResult))
  /\ last' = NoOp
  /\ UNCHANGED <<now, store, protectedKeys, singleFlightMap, calls, written, cfg,
                 bulkSyncExpirationTime, bulkFlight, logs, lifeVars, flowVars>>

\* a _bulkSync that arms the sync window when its source function has failed
SyncContArmOnFailure ==
  /\ HeadIs("syncCont")
  /\ LET i == Head(mq).c
         o == syncs[i].outcome
         expirationTime == createExpirationTime(now, <<>>)
         raced == IF syncs[i].timer = "armed"
                    THEN <<Job("syncPipeCont", i,
                               IF o.kind = "error" THEN ErrorResult("source")
                                                   ELSE ValueResult(0))>>
                    ELSE <<>>
     IN
     IF o.kind = "error"
       THEN /\ syncs' = [syncs EXCEPT ![i].fn = "failed"]
            /\ mq' = Tail(mq) \o raced
            /\ bulkSyncExpirationTime' = createExpirationTime(now, <<DefaultBulkSyncTtl>>)
            /\ UNCHANGED <<store, written>>
       ELSE IF o.kind = "undefined" /\ syncs[i].src = "syncFn" /\ cfg.bulkSyncFn
         THEN /\ syncs' = [syncs EXCEPT ![i].fn = "awaiting", ![i].src = "bulkSyncFn",
                                        ![i].invoked = Append(@, "bulkSyncFn")]
              /\ mq' = Tail(mq)
              /\ UNCHANGED <<store, written, bulkSyncExpirationTime>>
         ELSE /\ store' = bulkSyncSet(store, expirationTime, o.data)
              /\ written' = [k \in Keys |->
                               IF k \in PairKeys(o.data)
                                 THEN Write("sync", i, store'[k].value, expirationTime)
                                 ELSE written[k]]
              /\ bulkSyncExpirationTime' = createExpirationTime(now, <<DefaultBulkSyncTtl>>)
              /\ syncs' = [syncs EXCEPT ![i].fn = "written", ![i].completed = <<now>>,
                                        ![i].before = store, ![i].after = store',
                                        ![i].data = o.data]
              /\ mq' = Tail(mq) \o raced
  /\ last' = NoOp
  /\ UNCHANGED <<now, protectedKeys, singleFlightMap, calls, cfg, bulkFlight, logs,
                 lifeVars, flowVars>>

\* _bulkSync after the await of a source function: on undefined from syncFn
\* turn to this.bulkSyncFn; else write the pairs and arm the sync window;
\* a rejection leaves _bulkSync. The outcome reaches the pipeline unless
\* the timeout has already won the race
SyncCont ==
  /\ HeadIs("syncCont")
  /\ LET i == Head(mq).c
         o == syncs[i].outcome
         expirationTime == createExpirationTime(now, <<>>)
         raced == IF syncs[i].timer = "armed"
                    THEN <<Job("syncPipeCont", i,
                               IF o.kind = "error" THEN ErrorResult("source")
                                                   ELSE ValueResult(0))>>
                    ELSE <<>>
     IN
     IF o.kind = "error"
       THEN /\ syncs' = [syncs EXCEPT ![i].fn = "failed"]
            /\ mq' = Tail(mq) \o raced
            /\ UNCHANGED <<store, written, bulkSyncExpirationTime>>
       ELSE IF o.kind = "undefined" /\ syncs[i].src = "syncFn" /\ cfg.bulkSyncFn
         THEN /\ syncs' = [syncs EXCEPT ![i].fn = "awaiting", ![i].src = "bulkSyncFn",
                                        ![i].invoked = Append(@, "bulkSyncFn")]
              /\ mq' = Tail(mq)
              /\ UNCHANGED <<store, written, bulkSyncExpirationTime>>
         ELSE /\ store' = bulkSyncSet(store, expirationTime, o.data)
              /\ written' = [k \in Keys |->
                               IF k \in PairKeys(o.data)
                                 THEN Write("sync", i, store'[k].value, expirationTime)
                                 ELSE written[k]]
              /\ bulkSyncExpirationTime' = createExpirationTime(now, <<DefaultBulkSyncTtl>>)
              /\ syncs' = [syncs EXCEPT ![i].fn = "written", ![i].completed = <<now>>,
                                        ![i].before = store, ![i].after = store',
                                        ![i].data = o.data]
              /\ mq' = Tail(mq) \o raced
  /\ last' = NoOp
  /\ UNCHANGED <<now, protectedKeys, singleFlightMap, calls, cfg, bulkFlight, logs,
                 lifeVars, flowVars>>

\* the timeout of bulkSyncFlowControl fires
SyncTimerFire(i) ==
  /\ i \in 1..Len(syncs)
  /\ mq = <<>>
  /\ syncs[i].timer = "armed"
  /\ now >= syncs[i].deadline
  /\ syncs' = [syncs EXCEPT ![i].timer = "fired", ![i].deadline = 0]
  /\ mq' = <<Job("syncPipeCont", i, ErrorResult("timeout"))>>
  /\ last' = NoOp
  /\ UNCHANGED <<now, store, protectedKeys, singleFlightMap, calls, written, cfg,
                 bulkSyncExpirationTime, bulkFlight, logs, lifeVars, flowVars>>

\* an errorFn of bulkSync that counts the error as handled once it is logged
bulkSyncErrorFnHandled(lg, error) ==
  [result |-> IF lg THEN ValueResult(0) ELSE error, logged |-> LoggerError(lg, "bulkSync")]

\* bulkSync's errorFn on a cache whose logger field is lg: it logs and
\* returns undefined, so the error is rethrown
bulkSyncErrorFn(lg, error) == [result |-> error, logged |-> LoggerError(lg, "bulkSync")]

\* executeWithTimeout's finally (clearTimeout), then the pipeline's
\* try/catch with bulkSync's errorFn, on a cache whose logger field is lg
SyncPipeContWith(lg) ==
  /\ HeadIs("syncPipeCont")
  /\ LET i == Head(mq).c
         res == Head(mq).res
         out == IF res.kind = "error" THEN bulkSyncErrorFn(lg, res).result ELSE res
     IN
     /\ syncs' = [syncs EXCEPT ![i].timer = IF @ = "armed" THEN "cleared" ELSE @,
                               ![i].deadline = 0]
     /\ mq' = Append(Tail(mq), Job("syncFinally", i, out))
  /\ last' = NoOp
  /\ UNCHANGED <<now, store, protectedKeys, singleFlightMap, calls, written, cfg,
                 bulkSyncExpirationTime, bulkFlight>>
  /\ UNCHANGED <<cleanupIntervalId, intervalTimer, phase, flowVars>>

SyncPipeCont ==
  /\ SyncPipeContWith(logger)
  /\ logs' = logs \o (IF Head(mq).res.kind = "error"
                        THEN LoggerError(logger, "bulkSync") ELSE <<>>)
  /\ UNCHANGED logger

\* the continuations of the bulkAsyncGet calls in `ids`, in call order
RECURSIVE GetJobs(_)
GetJobs(ids) ==
  IF ids = {} THEN <<>>
  ELSE LET j == First(ids) IN <<Job("bulkGet", j, NoResult)>> \o GetJobs(ids \ {j})

\* bulkAsyncGet after `await this.bulkSync(options.syncFn)`: return bulkGet
BulkGetCont ==
  /\ HeadIs("bulkGet")
  /\ LET j == Head(mq).c
         r == bulkGet(store, protectedKeys, now)
     IN  /\ store' = r.store
         /\ written' = Track(store', "", NoWrite)
         /\ syncs' = [syncs EXCEPT ![j].pc = "done", ![j].got = <<r.result>>]
  /\ mq' = Tail(mq)
  /\ last' = NoOp
  /\ UNCHANGED <<now, protectedKeys, singleFlightMap, calls, cfg, bulkSyncExpirationTime,
                 bulkFlight, logs, lifeVars, flowVars>>

\* pipeline().finally: drop the single-flight entry; bulkSync returns to
\* every caller holding the promise, or rejects; a bulkAsyncGet whose
\* bulkSync returned goes on to bulkGet
SyncFinally ==
  /\ HeadIs("syncFinally")
  /\ LET i == Head(mq).c
         res == Head(mq).res
         holders == {j \in 1..Len(syncs) : syncs[j].pc = "wait" /\ syncs[j].leader = i}
         getters == {j \in holders : syncs[j].get /\ res.kind = "value"}
     IN
     /\ bulkFlight' = 0
     /\ syncs' = [j \in 1..Len(syncs) |->
                    IF j \in getters THEN [syncs[j] EXCEPT !.pc = "get", !.result = res]
                    ELSE IF j \in holders THEN [syncs[j] EXCEPT !.pc = "done", !.result = res]
                    ELSE syncs[j]]
     /\ mq' = Tail(mq) \o GetJobs(getters)
  /\ last' = NoOp
  /\ UNCHANGED <<now, store, protectedKeys, singleFlightMap, calls, written, cfg,
                 bulkSyncExpirationTime, logs, lifeVars, flowVars>>

\* the cache under bulkSync calls
NextSync ==
  \/ FlowTick
  \/ \E f \in BOOLEAN : BulkSync(f)
  \/ \E f \in BOOLEAN : BulkAsyncGet(f)
  \/ SyncResume
  \/ \E i \in 1..MaxSyncs, d \in cfg.data : SourceSettle(i, Data(d))
  \/ \E i \in 1..MaxSyncs : SourceSettle(i, UndefinedData)
  \/ \E i \in 1..MaxSyncs : SourceSettle(i, SourceError)
  \/ SyncCont
  \/ \E i \in 1..MaxSyncs : SyncTimerFire(i)
  \/ SyncPipeCont
  \/ SyncFinally
  \/ BulkGetCont

SpecSync == InitSync /\ [][NextSync]_vars

\* ---- LilypadCache with and without a logger --------------------------------
\* getOrSet options with each way of handling a failure: none, the old
\* value, a value of errorFn
LogOptions ==
  {PlainOptions, [PlainOptions EXCEPT !.returnOldOnError = TRUE],
   [PlainOptions EXCEPT !.errorFn = [kind |-> "value", val |-> 2]]}

\* a cache constructed with or without options.logger, empty or holding one
\* entry; one getOrSet call and one bulkSync call with a syncFn are made on it
InitLog ==
  /\ NoSync
  /\ now = 0
  /\ \/ store = <<>> /\ written = [k \in Keys |-> NoWrite]
     \/ store = StoreAfterSet /\ written = WrittenAfterSet
  /\ protectedKeys = {}
  /\ singleFlightMap = [f \in KeyStrings |-> 0]
  /\ calls = <<>>
  /\ mq = <<>>
  /\ last = NoOp
  /\ phase = "live"
  /\ logger \in BOOLEAN
  /\ cleanupIntervalId = 0
  /\ intervalTimer = NoTimer
  /\ CacheFlowControl
  /\ cfg = [maxCalls |-> 1, options |-> LogOptions, values |-> {1}, ttls |-> {<<1>>},
            loads |-> {2}, keys |-> LoadKeys, string |-> StringKeys, maxTime |-> MaxTime,
            maxSyncs |-> 1, data |-> {<<<<"k2", SyncValue>>>>}, bulkSyncFn |-> TRUE]

\* the steps that do not touch the logger
NextLogOther ==
  \/ Tick
  \/ \E k \in cfg.keys, o \in cfg.options : GetOrSet(k, o)
  \/ Resume
  \/ \E c \in 1..MaxCalls, v \in cfg.loads : LoaderResolve(c, v)
  \/ \E c \in 1..MaxCalls : LoaderReject(c)
  \/ FnCont
  \/ \E c \in 1..MaxCalls : TimerFire(c)
  \/ Finally
  \/ BulkSync(TRUE)
  \/ SyncResume
  \/ \E i \in 1..MaxSyncs, d \in cfg.data : SourceSettle(i, Data(d))
  \/ \E i \in 1..MaxSyncs : SourceSettle(i, UndefinedData)
  \/ \E i \in 1..MaxSyncs : SourceSettle(i, SourceError)
  \/ SyncCont
  \/ \E i \in 1..MaxSyncs : SyncTimerFire(i)
  \/ SyncFinally
  \/ Dispose

\* a step of a cache whose logger field is lg, the history of logged
\* messages left aside
NextLogWith(lg) ==
  \/ NextLogOther
  \/ PipeContWith(lg)
  \/ SyncPipeContWith(lg)

NextLog ==
  \/ NextLogOther
  \/ PipeCont
  \/ SyncPipeCont

SpecLog == InitLog /\ [][NextLog]_vars

\* ---- properties of the store operations ---------------------------------
Entry(s, k) == IF k \in DOMAIN s THEN <<s[k]>> ELSE <<>>
Expired(k) == k \in DOMAIN store /\ now >= store[k].expirationTime
Hit(k) == k \in DOMAIN store /\ now < store[k].expirationTime

\* C8: for every protected key K, delete(K), clear() and purgeExpired()
\* without force leave K's entry unchanged; with force delete(K) and clear()
\* remove it, and purgeExpired removes it exactly when it is expired.
C8_ProtectedKeys ==
  [][\A k \in protectedKeys :
       /\ (Delete(k, FALSE) \/ Clear(FALSE) \/ PurgeExpired(FALSE))
            => Entry(store', k) = Entry(store, k)
       /\ (Delete(k, TRUE) \/ Clear(TRUE)) => k \notin DOMAIN store'
       /\ PurgeExpired(TRUE) =>
            IF Expired(k) THEN k \notin DOMAIN store'
            ELSE Entry(store', k) = Entry(store, k)]_vars

\* an unforced clear() has just run over a protected and an unprotected entry
C8_Witness ==
  /\ last.op = "clear" /\ ~last.flag
  /\ \E k \in protectedKeys : k \in DOMAIN store /\ Expired(k)
  /\ \E k \in Keys \ protectedKeys : k \notin DOMAIN store

\* C9: after set(K, v, ttl) at time t and until K is next written or removed,
\* getComprehensive(K) is hit with v iff now < t + ttl and expired with v
\* iff now >= t + ttl (ttl defaulting to the default TTL); it is miss iff
\* the store has no entry for K.
C9_Classification ==
  \A k \in Keys :
    LET r == getComprehensive(store, now, k) IN
    /\ (r.type = "miss") = (k \notin DOMAIN store)
    /\ written[k].by = "set" =>
         /\ (r.type = "hit") = (now < written[k].expires)
         /\ (r.type = "expired") = (now >= written[k].expires)
         /\ r.value = written[k].value

\* getComprehensive has just returned expired for an entry set with a ttl
\* that ends at this very moment
C9_Witness ==
  /\ last.op = "getComprehensive"
  /\ last.ret.type = "expired"
  /\ written[last.key].by = "set"
  /\ written[last.key].expires = now

\* C10 as stated: get returns the value iff K is a hit; it changes the
\* store only when removeOnExpire is set and K's entry is expired, and then
\* it removes the entry; getComprehensive never changes the store.
C10_Original ==
  [][/\ \A k \in Keys, r \in BOOLEAN :
          Get(k, r) =>
            /\ last'.ret = IF Hit(k)
                 THEN [type |-> "value", value |-> store[k].value, expirationTime |-> 0]
                 ELSE [type |-> "undefined", value |-> 0, expirationTime |-> 0]
            /\ store' = IF r /\ Expired(k) THEN MapDelete(store, k) ELSE store
     /\ \A k \in Keys : GetComprehensive(k) => store' = store]_vars

\* C10 amended: as C10, except that the expired entry of a protected key is
\* kept.
C10_GetEviction ==
  [][/\ \A k \in Keys, r \in BOOLEAN :
          Get(k, r) =>
            /\ last'.ret = IF Hit(k)
                 THEN [type |-> "value", value |-> store[k].value, expirationTime |-> 0]
                 ELSE [type |-> "undefined", value |-> 0, expirationTime |-> 0]
            /\ store' = IF r /\ Expired(k) /\ k \notin protectedKeys
                          THEN MapDelete(store, k) ELSE store
     /\ \A k \in Keys : GetComprehensive(k) => store' = store]_vars

\* get(K) with eviction has just returned undefined for the expired entry
\* of a protected key, which is still stored
C10_Witness ==
  /\ last.op = "get" /\ last.flag
  /\ last.ret.type = "undefined"
  /\ last.key \in protectedKeys
  /\ Expired(last.key)

\* ---- properties of a getOrSet call whose loader fails -------------------
CallIds == 1..Len(calls)
\* call c started a pipeline and the pipeline has settled
Settled(c) == calls[c].pc = "done" /\ calls[c].leader = c
\* the pipeline of c saw the loader reject (the timeout had not fired)
LoaderFailed(c) == Settled(c) /\ calls[c].loader = "rejected" /\ calls[c].timer = "cleared"
\* the pipeline of c saw the timeout fire while the loader was running
TimedOut(c) == Settled(c) /\ calls[c].timer = "fired"
NoErrorFn(c) == calls[c].opts.errorFn.kind = "none"
ErrorTtlOf(c) == IF calls[c].opts.errorTtl = <<>> THEN DefaultErrorTtl
                 ELSE calls[c].opts.errorTtl[1]
\* the job at the head of the queue is the failure of call c reaching the
\* pipeline's catch
FailureAtHead(c) ==
  HeadIs("pipeCont") /\ Head(mq).c = c /\ Head(mq).res.kind = "error"

\* C4: a getOrSet with returnOldOnError and no errorFn, issued while K held
\* V0, whose loader rejects resolves to V0, and handling the failure leaves
\* K's entry holding V0 with expirationTime = time of the failure +
\* (options.errorTtl ?? defaultErrorTtl).
C4_ReturnOldOnError ==
  /\ [](\A c \in CallIds :
          (LoaderFailed(c) /\ calls[c].opts.returnOldOnError /\ NoErrorFn(c)
             /\ calls[c].fetched.type /= "miss")
            => calls[c].result = ValueResult(calls[c].fetched.value))
  /\ [][\A c \in CallIds :
          (PipeCont /\ FailureAtHead(c) /\ Head(mq).res.err = "loader"
             /\ calls[c].opts.returnOldOnError /\ NoErrorFn(c)
             /\ calls[c].fetched.type /= "miss")
            => /\ calls[c].key \in DOMAIN store'
               /\ store'[calls[c].key] = [value |-> calls[c].fetched.value,
                                          expirationTime |-> now + ErrorTtlOf(c)]]_vars

\* a call that found an expired entry has resolved to its value after its
\* loader rejected, and the entry is fresh again
C4_Witness ==
  \E c \in CallIds :
    /\ LoaderFailed(c) /\ calls[c].opts.returnOldOnError /\ NoErrorFn(c)
    /\ calls[c].fetched.type = "expired"
    /\ calls[c].result = ValueResult(calls[c].fetched.value)
    /\ written[calls[c].key].by = "fallback"
    /\ Hit(calls[c].key)

\* the steps of a getOrSet call that handle a failure or move the call on
\* without a loaded value
NonLoadingStep ==
  \/ \E k \in LoadKeys, o \in cfg.options : GetOrSet(k, o)
  \/ Resume
  \/ \E c \in CallIds : LoaderReject(c) \/ TimerFire(c)
  \/ FnCont /\ Head(mq).res.kind = "error"
  \/ PipeCont
  \/ Finally
NoFallback(c) == NoErrorFn(c) /\ ~calls[c].opts.returnOldOnError

\* C5 as stated, the part about the outcome: a getOrSet with neither errorFn
\* nor returnOldOnError whose loader rejects with E rejects with E itself.
C5_Original ==
  \A c \in CallIds :
    (Settled(c) /\ NoFallback(c) /\ calls[c].loader = "rejected")
      => calls[c].result = ErrorResult("loader")

\* C5 amended: a getOrSet with neither errorFn nor returnOldOnError whose
\* loader rejects with E before the timeout has fired rejects with E itself
\* (with the timeout error once the timeout has fired), and no step of the
\* call changes the store.
C5_Rethrow ==
  /\ [](\A c \in CallIds :
          /\ (LoaderFailed(c) /\ NoFallback(c)) => calls[c].result = ErrorResult("loader")
          /\ (TimedOut(c) /\ NoFallback(c)) => calls[c].result = ErrorResult("timeout"))
  /\ [][(NonLoadingStep /\ \A c \in CallIds : NoFallback(c)) => store' = store]_vars

\* a call without fallback has rejected with its loader's error while the
\* expired entry it found is still stored
C5_Witness ==
  \E c \in CallIds :
    /\ LoaderFailed(c) /\ NoFallback(c)
    /\ calls[c].result = ErrorResult("loader")
    /\ calls[c].fetched.type = "expired"
    /\ Expired(calls[c].key)
    /\ store[calls[c].key].value = calls[c].fetched.value

\* the outcome the fallback order gives call c for the error e, for an
\* errorFn that does not throw
FallbackOrder(c, e) ==
  IF calls[c].opts.errorFn.kind = "value"
    THEN ValueResult(calls[c].opts.errorFn.val)
  ELSE IF calls[c].opts.returnOldOnError /\ calls[c].fetched.type \in {"hit", "expired"}
    THEN ValueResult(calls[c].fetched.value)
  ELSE ErrorResult(e)

\* C6: on loader failure the outcome is the value of options.errorFn if it
\* returns a defined value; otherwise the prior value if returnOldOnError is
\* set and the classification at call time was hit or expired; otherwise
\* the error is rethrown.
C6_FallbackOrder ==
  \A c \in CallIds :
    calls[c].opts.errorFn.kind /= "throws" =>
      /\ LoaderFailed(c) => calls[c].result = FallbackOrder(c, "loader")
      /\ TimedOut(c) => calls[c].result = FallbackOrder(c, "timeout")

\* three calls of the order have happened: an errorFn value won over the old
\* value
C6_Witness ==
  \E c \in CallIds :
    /\ LoaderFailed(c)
    /\ calls[c].opts.errorFn.kind = "value" /\ calls[c].opts.returnOldOnError
    /\ calls[c].fetched.type = "expired"
    /\ calls[c].fetched.value /= calls[c].opts.errorFn.val
    /\ calls[c].result = ValueResult(calls[c].opts.errorFn.val)

\* ---- properties of concurrent getOrSet calls ----------------------------
Done(c) == calls[c].pc = "done"
BothMiss(a, b) == calls[a].fetched.type = "miss" /\ calls[b].fetched.type = "miss"
LoadersRunning(k) == {c \in CallIds : calls[c].key = k /\ calls[c].loader = "running"}
\* the loaders the flow control is still waiting for
LoadersAwaited(k) ==
  {c \in CallIds : calls[c].key = k /\ calls[c].loader = "running" /\ calls[c].timer = "armed"}

\* C1 as stated: of the getOrSet calls for K issued while K is a miss and
\* before the first call's loader has settled, only the first invokes its
\* loader, and all of them resolve to that loader's result.
C1_Original ==
  \A b \in CallIds :
    LET a == IF calls[b].firstRunning = 0 THEN b ELSE calls[b].firstRunning IN
    (calls[a].leader = a /\ BothMiss(a, b)) =>
      /\ a /= b => calls[b].loader = "none"
      /\ (Done(a) /\ Done(b) /\ calls[a].loader = "resolved")
           => calls[b].result = ValueResult(calls[a].lval)

\* C1 amended: of the getOrSet calls for K issued while K is a miss, before
\* the first call's loader has settled and before its timeout has fired,
\* only the first invokes its loader and all of them settle together with
\* the first call's outcome, which is the loader's value when the loader
\* resolves before the timeout fires.
C1_SingleFlight ==
  \A b \in CallIds :
    LET a == IF calls[b].firstAwaited = 0 THEN b ELSE calls[b].firstAwaited IN
    (calls[a].leader = a /\ BothMiss(a, b)) =>
      /\ a /= b => calls[b].loader = "none"
      /\ calls[b].pc = "wait" => calls[b].leader = a
      /\ Done(b) => Done(a) /\ calls[b].result = calls[a].result
      /\ (Done(a) /\ calls[a].loader = "resolved" /\ calls[a].timer = "cleared")
           => calls[a].result = ValueResult(calls[a].lval)

\* a second call issued during the first call's load has resolved to the
\* value the first call's loader produced, without invoking a loader
C1_Witness ==
  \E a, b \in CallIds :
    /\ a /= b /\ calls[b].firstAwaited = a /\ calls[a].leader = a /\ BothMiss(a, b)
    /\ Done(a) /\ Done(b)
    /\ calls[b].loader = "none"
    /\ calls[a].loader = "resolved"
    /\ calls[b].result = ValueResult(calls[a].lval)

\* C2 as stated: for every key at most one loader started through getOrSet
\* is running, and a caller that arrives while one is running starts none.
C2_Original ==
  /\ \A k \in Keys : Cardinality(LoadersRunning(k)) <= 1
  /\ \A b \in CallIds :
       (calls[b].firstRunning /= 0 /\ calls[calls[b].firstRunning].leader = calls[b].firstRunning)
         => calls[b].loader = "none"

\* C2 amended: for every key at most one loader started through getOrSet is
\* running with its timeout not yet fired, it belongs to the call registered
\* in the single-flight map, and a caller that arrives while the call that
\* starts it is awaited starts none.
C2_OneAwaitedLoader ==
  /\ \A k \in Keys :
       /\ Cardinality(LoadersAwaited(k)) <= 1
       /\ LoadersAwaited(k) \subseteq {singleFlightMap[k]}
  /\ \A b \in CallIds :
       (calls[b].firstAwaited /= 0 /\ calls[calls[b].firstAwaited].leader = calls[b].firstAwaited)
         => calls[b].loader = "none"

\* a caller has joined a pipeline whose loader is still awaited
C2_Witness ==
  \E a, b \in CallIds :
    /\ a /= b /\ calls[b].firstAwaited = a
    /\ a \in LoadersAwaited(calls[a].key)
    /\ calls[b].pc = "wait" /\ calls[b].leader = a /\ calls[b].loader = "none"

\* C3: when getOrSet calls for one key share an in-flight loader and that
\* loader rejects, every caller that joined it settles by its own options:
\* with the value of its errorFn, else with its own prior value if it asked
\* for returnOldOnError, else with the loader's error.
C3_OwnOptions ==
  \A b \in CallIds :
    LET a == calls[b].leader IN
    (Done(b) /\ a /= 0 /\ a /= b /\ LoaderFailed(a))
      => calls[b].result = FallbackOrder(b, "loader")

\* C7: once a failed getOrSet has been resolved with a fallback value v at
\* time t, every getOrSet for the key without skipCache issued before
\* t + (options.errorTtl ?? defaultErrorTtl), with no write or removal of
\* the key in between, returns v at once: no job is queued for it and its
\* loader is not invoked.
C7_FallbackCached ==
  [][\A k \in LoadKeys, o \in cfg.options :
       (GetOrSet(k, o) /\ ~o.skipCache
          /\ written[k].by = "fallback" /\ now < written[k].expires)
         => /\ mq' = mq
            /\ calls'[Len(calls')].pc = "done"
            /\ calls'[Len(calls')].loader = "none"
            /\ calls'[Len(calls')].result = ValueResult(written[k].value)]_vars

\* a call was answered from the entry that an earlier failed call re-cached
\* with the value of its errorFn
C7_Witness ==
  \E a, c \in CallIds :
    /\ a < c /\ calls[a].key = calls[c].key
    /\ LoaderFailed(a) /\ calls[a].opts.errorFn.kind = "value"
    /\ calls[a].result = ValueResult(calls[a].opts.errorFn.val)
    /\ written[calls[a].key].by = "fallback" /\ written[calls[a].key].c = a
    /\ now < written[calls[a].key].expires
    /\ Done(c) /\ calls[c].leader = 0 /\ calls[c].loader = "none"
    /\ ~calls[c].opts.skipCache
    /\ calls[c].fetched = [type |-> "hit", value |-> calls[a].opts.errorFn.val]
    /\ calls[c].result = calls[a].result

\* ---- properties of the loader's invocation and success ------------------
\* the call that the step has just issued
Issued == calls'[Len(calls')]

\* C11 as stated, the part about the outcome: a getOrSet with skipCache that
\* found a hit and invoked its loader returns the loader's result.
C11_Original ==
  \A c \in CallIds :
    (Settled(c) /\ calls[c].opts.skipCache /\ calls[c].fetched.type = "hit"
       /\ calls[c].loader = "resolved")
      => calls[c].result = ValueResult(calls[c].lval)

\* C11 amended: a getOrSet call that finds a hit without skipCache returns
\* the cached value at once and leaves the store unchanged; any other call
\* reaches the single-flight check, where it invokes its loader iff no
\* operation for the key is in flight and otherwise attaches to that
\* operation; a loader is invoked nowhere else; and a call that invoked its
\* loader returns the loader's value when the loader resolves before the
\* timeout fires.
C11_LoaderInvocation ==
  /\ [][/\ \A k \in LoadKeys, o \in cfg.options :
             GetOrSet(k, o) =>
               /\ store' = store
               /\ Issued.loader = "none"
               /\ IF ~o.skipCache /\ Hit(k)
                    THEN /\ Issued.pc = "done"
                         /\ Issued.result = ValueResult(store[k].value)
                         /\ mq' = mq
                    ELSE /\ Issued.pc = "rate"
                         /\ mq' = Append(mq, Job("resume", Len(calls'), NoResult))
        /\ Resume =>
             LET c == Head(mq).c
                 k == calls[c].key
             IN IF singleFlightMap[k] = 0
                  THEN calls'[c].loader = "running" /\ calls'[c].leader = c
                  ELSE calls'[c].loader = "none" /\ calls'[c].leader = singleFlightMap[k]
        /\ \A c \in CallIds :
             (calls[c].loader = "none" /\ calls'[c].loader /= "none")
               => Resume /\ Head(mq).c = c]_vars
  /\ [](\A c \in CallIds :
          (Settled(c) /\ calls[c].loader = "resolved" /\ calls[c].timer = "cleared")
            => calls[c].result = ValueResult(calls[c].lval))

\* a call with skipCache that found a hit has returned the value of the
\* loader it invoked, which differs from the cached one
C11_Witness ==
  \E c \in CallIds :
    /\ Settled(c) /\ calls[c].opts.skipCache /\ calls[c].fetched.type = "hit"
    /\ calls[c].loader = "resolved" /\ calls[c].timer = "cleared"
    /\ calls[c].result = ValueResult(calls[c].lval)
    /\ calls[c].lval /= calls[c].fetched.value

\* C12 as stated, the part about the outcome: when the loader started by a
\* getOrSet call resolves with v, the call returns v.
C12_Original ==
  \A c \in CallIds :
    (Settled(c) /\ calls[c].loader = "resolved") => calls[c].result = ValueResult(calls[c].lval)

\* C12 amended: when the loader started by a getOrSet call resolves with v,
\* the continuation of the load at time t makes K's entry
\* (v, t + (options.ttl ?? defaultTtl)) whatever entry K had, and the call
\* returns v unless its timeout has fired before.
C12_LoadCached ==
  /\ [][\A c \in CallIds :
          (FnCont /\ Head(mq).c = c /\ Head(mq).res.kind = "value")
            => /\ Head(mq).res.val = calls[c].lval
               /\ store' = [k \in DOMAIN store \cup {calls[c].key} |->
                              IF k = calls[c].key
                                THEN [value |-> calls[c].lval,
                                      expirationTime |->
                                        now + (IF calls[c].opts.ttl = <<>> THEN DefaultTtl
                                               ELSE calls[c].opts.ttl[1])]
                                ELSE store[k]]]_vars
  /\ [](\A c \in CallIds :
          (Settled(c) /\ calls[c].loader = "resolved" /\ calls[c].timer /= "fired")
            => calls[c].result = ValueResult(calls[c].lval))

\* a call with a ttl of its own has returned the loaded value, which
\* replaced the expired entry the call had found
C12_Witness ==
  \E c \in CallIds :
    /\ Settled(c) /\ calls[c].loader = "resolved" /\ calls[c].timer = "cleared"
    /\ calls[c].opts.ttl /= <<>>
    /\ calls[c].fetched.type = "expired" /\ calls[c].fetched.value /= calls[c].lval
    /\ calls[c].result = ValueResult(calls[c].lval)
    /\ written[calls[c].key].by = "load" /\ written[calls[c].key].c = c
    /\ store[calls[c].key].value = calls[c].lval

\* C13: invalidate(K) on a hit keeps the entry and its value and makes it
\* classify as expired from then on; on a miss it creates no entry; on an
\* expired entry it changes nothing; it never removes an entry.
C13_Invalidate ==
  /\ [][\A k \in Keys :
          Invalidate(k) =>
            /\ DOMAIN store' = DOMAIN store
            /\ \A x \in DOMAIN store : x /= k => store'[x] = store[x]
            /\ Hit(k) => /\ store'[k].value = store[k].value
                         /\ store'[k].expirationTime <= now
            /\ ~Hit(k) => store' = store]_vars
  /\ [](\A k \in Keys :
          written[k].by = "invalidate" =>
            getComprehensive(store, now, k).type = "expired"
              /\ getComprehensive(store, now, k).value = written[k].value)

\* invalidate has just run on a hit, and time has passed since
C13_Witness ==
  \E k \in Keys :
    /\ written[k].by = "invalidate"
    /\ Expired(k)
    /\ store[k].expirationTime < now - 1

\* ---- properties of construction and dispose ------------------------------
\* C14: after dispose() the periodic purge is stopped and never runs again,
\* the store has no entry, protected keys included, and the logger is
\* detached; dispose() can always be called again and leaves that state.
C14_Dispose ==
  /\ [][Dispose => /\ store' = <<>>
                   /\ logger' = FALSE
                   /\ cleanupIntervalId' = 0
                   /\ intervalTimer'.active = FALSE
                   /\ protectedKeys' = protectedKeys]_vars
  /\ [][(phase = "disposed" /\ Dispose)
          => <<logger', cleanupIntervalId', intervalTimer', phase'>>
               = <<logger, cleanupIntervalId, intervalTimer, phase>>]_vars
  /\ [][phase = "disposed" => ~AutoPurge]_vars
  /\ [](phase = "disposed" => (ENABLED Dispose) /\ ~intervalTimer.active)

\* dispose has just stopped the interval and emptied a store that held a
\* protected entry
C14_Witness ==
  /\ last.op = "dispose" /\ last.flag
  /\ last.ret.value > 0
  /\ phase = "disposed"
  /\ store = <<>>
  /\ ~intervalTimer.active

\* C15: constructing a cache with an autoCleanupInterval that is set but is
\* not a positive finite number (zero, negative, NaN, infinite) fails; with
\* a positive finite number it succeeds and schedules the periodic purge.
C15_IntervalValidated ==
  [][\A l \in BOOLEAN, a \in IntervalArgs :
       Construct(l, a) =>
         IF a.kind = "undefined"
           THEN phase' = "live" /\ ~intervalTimer'.active
         ELSE IF a.kind = "number" /\ a.n > 0
           THEN phase' = "live" /\ intervalTimer'.active /\ intervalTimer'.period = a.n
         ELSE phase' = "failed"]_vars
\* ---- properties of rateLimit ----------------------------------------------
RateStep == last'.op = "rateLimit"

\* the window rule, read per rate key: with a rate R, a call passes exactly
\* when the key has no record, or its record is at least R old
RatePerKey ==
  [][RateStep =>
       LET k == RateKey(last'.ret.pair[1], last'.ret.pair[2])
       IN  /\ fc.rate = <<>> => last'.flag
           /\ fc.rate /= <<>> =>
                /\ last'.flag <=> (k \notin DOMAIN rateMap
                                     \/ DateNow(now) - rateMap[k] >= fc.rate[1])
                /\ ~last'.flag => last'.ret.key = k]_vars

\* C16: with a rate R, the first rateLimit call of a pair (c, f) passes; a
\* further call less than R after the pair's last passed call fails with an
\* error naming c#f; a call R or more after it passes; without a rate every
\* call passes
C16_RateWindow ==
  [][RateStep =>
       LET p == last'.ret.pair
       IN  /\ fc.rate = <<>> => last'.flag
           /\ fc.rate /= <<>> =>
                /\ passed[p] = <<>> => last'.flag
                /\ (passed[p] /= <<>> /\ now - passed[p][1] < fc.rate[1]) =>
                     /\ ~last'.flag
                     /\ last'.ret.key = RateKey(p[1], p[2])
                /\ (passed[p] /= <<>> /\ now - passed[p][1] >= fc.rate[1]) =>
                     last'.flag]_vars

\* C17: a rejected rateLimit call leaves every record unchanged; a passing
\* call changes the record of its own pair only, so the record every other
\* pair reads stays as it was
C17_RateRecords ==
  [][RateStep =>
       LET p == last'.ret.pair
       IN  /\ ~last'.flag => rateMap' = rateMap
           /\ \A q \in Pairs \ {p} :
                MapGet(rateMap', RateKey(q[1], q[2])) = MapGet(rateMap, RateKey(q[1], q[2]))]_vars

\* ---- properties of executeWithRetries and executeFn -------------------------
OpIds == 1..Len(ops)
\* the call's promise has settled
OpDone(i) == ops[i].pc = "done"
\* the call is a direct executeWithRetries call
Direct(i) == ops[i].kind = "executeWithRetries"
\* the call ended with the value of one of its operation's invocations
Succeeded(i) == OpDone(i) /\ ops[i].result.kind = "value" /\ ops[i].result.val >= 1
\* the call's pipeline ran and every attempt it made failed
Exhausted(i) == OpDone(i) /\ ops[i].invoked >= 1 /\ ~Succeeded(i)

\* C18: executeWithRetries with effective retry count N never invokes the
\* operation more than N+1 times; when every invocation fails it has invoked
\* it exactly N+1 times and (with no errorFn value) the call fails with the
\* error of invocation N+1; when invocation k is the first to succeed it has
\* invoked it exactly k times and the call returns the value of invocation k
C18_RetryCount ==
  \A i \in OpIds :
    Direct(i) =>
      LET N == EffectiveRetries(ops[i])
      IN  /\ ops[i].invoked <= N + 1
          /\ Exhausted(i) =>
               /\ ops[i].invoked = N + 1
               /\ ops[i].lastError = FnError(N + 1)
               /\ ops[i].opts.errorFn.kind \in {"none", "undefined"} =>
                    ops[i].result = FnError(N + 1)
          /\ Succeeded(i) =>
               /\ ops[i].result = FnValue(ops[i].invoked)
               /\ ops[i].running = {}

\* an always-failing operation under two retries taken from the instance, and
\* nothing left running
C18_Witness ==
  \E i \in OpIds :
    /\ Direct(i)
    /\ ops[i].opts.retries = <<>>
    /\ fc.retries = <<2>>
    /\ Exhausted(i)
    /\ ops[i].invoked = MaxInvocations
    /\ ops[i].result = FnError(MaxInvocations)

\* C19: in executeWithRetries and executeFn errorFn is applied at most once,
\* and only when no attempt is left: never while an attempt or a backoff is
\* pending. When the attempts are exhausted, an errorFn that returns a value
\* makes that value the result; with no errorFn, or one returning undefined,
\* the call fails with the error of the last attempt
C19_ErrorFnAfterRetries ==
  \A i \in OpIds :
    LET N == EffectiveRetries(ops[i])
        errorFn == ops[i].opts.errorFn
    IN  /\ ops[i].errorFnCalls <= 1
        /\ ops[i].pc \in {"rate", "wait", "attempt", "backoff"} => ops[i].errorFnCalls = 0
        /\ ops[i].errorFnCalls = 1 => ops[i].attempts >= N /\ ops[i].invoked = N + 1
        /\ Succeeded(i) => ops[i].errorFnCalls = 0
        /\ Exhausted(i) =>
             /\ ops[i].errorFnCalls = (IF errorFn.kind = "none" THEN 0 ELSE 1)
             /\ errorFn.kind = "value" => ops[i].result = ValueResult(errorFn.val)
             /\ errorFn.kind \in {"none", "undefined"} =>
                  /\ ops[i].result = ops[i].lastError
                  /\ ops[i].result.kind = "error"

\* an executeFn call whose two attempts failed and whose errorFn's value
\* became the result
C19_Witness ==
  \E i \in OpIds :
    /\ ops[i].kind = "executeFn"
    /\ EffectiveRetries(ops[i]) = 1
    /\ ops[i].opts.errorFn.kind = "value"
    /\ Exhausted(i)
    /\ ops[i].invoked = 2
    /\ ops[i].errorFnCalls = 1
    /\ ops[i].result = ValueResult(ops[i].opts.errorFn.val)

\* ---- properties of executeFn under the rate limit ---------------------------
\* the rate-limit rejection of call i is on its way to the caller
Rejecting(i) ==
  \E n \in 1..Len(mq) : mq[n] = Job("flowResume", i, RateLimitError)
\* call i was rejected by the rate limit
RateRejected(i) == Rejecting(i) \/ (OpDone(i) /\ ops[i].result = RateLimitError)
\* a step that issues an executeFn call which the rate check rejects
RejectedCall ==
  /\ Len(ops') = Len(ops) + 1
  /\ ~rateLimit(rateMap, fc.rate, DateNow(now), ops'[Len(ops')].c, ops'[Len(ops')].f).outcome.passed
\* a step that hands a rate-limit rejection to its caller
RejectionDelivered == HeadIs("flowResume") /\ Head(mq).res = RateLimitError /\ mq' = Tail(mq)

\* C20: an executeFn call that the rate check rejects fails with the
\* rate-limit error and does nothing else: its operation is never invoked,
\* its errorFn never applied, no attempt is counted, no timer armed, it neither
\* joins nor registers a pipeline, and the steps that reject it leave the
\* single-flight map (and the rate records) unchanged
C20_RateRejection ==
  /\ [](\A i \in OpIds :
          RateRejected(i) =>
            /\ ops[i].invoked = 0
            /\ ops[i].errorFnCalls = 0
            /\ ops[i].attempts = 0
            /\ ops[i].backoffs = <<>>
            /\ ops[i].timer = "none"
            /\ ops[i].leader = 0
            /\ \A f \in Ids : singleFlightMap[f] /= i)
  /\ [][/\ RejectedCall =>
             /\ Rejecting(Len(ops))'
             /\ singleFlightMap' = singleFlightMap
             /\ rateMap' = rateMap
        /\ RejectionDelivered =>
             /\ ops'[Head(mq).c].pc = "done"
             /\ ops'[Head(mq).c].result = RateLimitError
             /\ singleFlightMap' = singleFlightMap]_vars

\* a call with a retry and an errorFn was rejected by the rate limit while a
\* pipeline for its function identifier was in flight
C20_Witness ==
  \E i \in OpIds :
    /\ OpDone(i)
    /\ ops[i].result = RateLimitError
    /\ ops[i].opts.retries = <<1>>
    /\ ops[i].opts.errorFn.kind = "value"
    /\ singleFlightMap[ops[i].f] /= 0

\* ---- properties of single-flight in executeFn -------------------------------
\* C21: an executeFn call for f that passes the rate check while a pipeline
\* for f is pending, whoever its consumer is, joins that pipeline: its own
\* operation is never invoked, it arms no timer and registers nothing, and it
\* settles together with that pipeline's call, with the same outcome
C21_KeyedByFunction ==
  \A b \in OpIds :
    LET a == ops[b].pending IN
    (a /= 0 /\ ~RateRejected(b)) =>
      /\ ops[b].invoked = 0
      /\ ops[b].timer = "none"
      /\ singleFlightMap[ops[b].f] /= b
      /\ ops[b].pc \in {"rate", "wait", "done"}
      /\ ops[b].pc \in {"wait", "done"} => ops[b].leader = a
      /\ ops[b].pc = "wait" => ~OpDone(a) /\ singleFlightMap[ops[b].f] = a
      /\ OpDone(b) => OpDone(a) /\ ops[b].result = ops[a].result

\* a call of another consumer arrived while the pipeline for f was pending
\* and got the value of that pipeline's operation without invoking its own
C21_Witness ==
  \E a, b \in OpIds :
    /\ ops[b].pending = a
    /\ ops[a].c /= ops[b].c
    /\ OpDone(b)
    /\ ops[b].invoked = 0
    /\ Succeeded(a)
    /\ ops[b].result = ops[a].result

\* the pipeline that call i started is pending: its promise has not settled
PipelinePending(i) ==
  ops[i].kind = "executeFn" /\ ops[i].leader = i /\ ops[i].pc \in {"attempt", "backoff", "settling"}

\* C22: the single-flight map holds an entry for f exactly while a pipeline
\* for f is pending: a pending pipeline is registered under its f, and once it
\* has settled, with a value, an error, a timeout or a fallback, its entry is
\* gone. A call for f that passes the rate check after every earlier call for
\* f has settled starts a pipeline of its own and invokes its own operation
C22_ScopedRelease ==
  /\ \A f \in Ids :
       singleFlightMap[f] /= 0 =>
         /\ singleFlightMap[f] \in OpIds
         /\ ops[singleFlightMap[f]].f = f
         /\ PipelinePending(singleFlightMap[f])
  /\ \A i \in OpIds :
       /\ PipelinePending(i) => singleFlightMap[ops[i].f] = i
       /\ (ops[i].kind = "executeFn" /\ OpDone(i)) => singleFlightMap[ops[i].f] /= i
       /\ (ops[i].settledBefore /= 0 /\ ~RateRejected(i) /\ ops[i].pc /= "rate") =>
            /\ ops[i].leader = i
            /\ ops[i].invoked >= 1

\* after a pipeline for f had ended with the timeout error, the next call for
\* f ran its own operation and returned its value
C22_Witness ==
  \E a, b \in OpIds :
    /\ ops[b].settledBefore = a
    /\ ops[a].result = TimeoutError
    /\ Succeeded(b)
    /\ ops[b].leader = b
    /\ singleFlightMap[ops[b].f] = 0

\* ---- properties of calls for different identifiers --------------------------
\* no other getOrSet call is for the key of call c
OwnKey(c) == \A d \in CallIds \ {c} : calls[d].key /= calls[c].key
\* call c, unless answered from the cache, runs a pipeline of its own and
\* invokes its own loader, and when that loader resolves before the timeout
\* fires the call resolves to that loader's value
OwnLoader(c) ==
  /\ calls[c].leader \in {0, c}
  /\ (calls[c].pc /= "rate" /\ calls[c].fetched.type /= "hit") =>
       /\ calls[c].leader = c
       /\ calls[c].loader /= "none"
  /\ (Done(c) /\ calls[c].loader = "resolved" /\ calls[c].timer = "cleared") =>
       calls[c].result = ValueResult(calls[c].lval)

\* C23: concurrent getOrSet calls for distinct keys are never collapsed: each
\* call that is not answered from the cache invokes its own loader, joins no
\* other call's pipeline, and resolves to its own loader's result
C23_DistinctKeys == \A c \in CallIds : OwnKey(c) => OwnLoader(c)

\* with string keys, calls for distinct keys are independent
StringKeysIndependent == cfg.string = StringKeys => C23_DistinctKeys

\* executeFn calls for distinct function identifiers are independent: each
\* that passes the rate check runs its own pipeline and invokes its own
\* operation, once if it has no retry
DistinctFunctions ==
  \A i \in OpIds :
    (/\ ops[i].kind = "executeFn"
     /\ CallsFor(ops[i].f) = {i}
     /\ ~RateRejected(i)
     /\ ops[i].pc /= "rate") =>
      /\ ops[i].leader = i
      /\ ops[i].invoked >= 1
      /\ EffectiveRetries(ops[i]) = 0 => ops[i].invoked = 1
      /\ (OpDone(i) /\ ops[i].result.kind = "value" /\ ops[i].errorFnCalls = 0) =>
           ops[i].result = FnValue(ops[i].invoked)

\* ---- properties of executeWithTimeout -----------------------------------------
\* call i is a direct executeWithTimeout call
Timed(i) == ops[i].kind = "executeWithTimeout"
\* the outcome of the operation of a call that invoked it once
OwnOutcome(i) == ops[i].result \in {FnValue(1), FnError(1)}
\* the outcome of the operation of call i is on its way to the awaiting side
OutcomeQueued(i) ==
  \E n \in 1..Len(mq) : mq[n] \in {Job("attemptCont", i, FnValue(1)), Job("attemptCont", i, FnError(1))}

\* C24: with a timeout T, an executeWithTimeout call fails with the timeout
\* error exactly when its timer fired, which happens no earlier than T after
\* the call and only while the operation has not settled; otherwise, the
\* operation having settled while the timer was armed, the call ends with the
\* operation's own value or error. A settled call has no armed timer. With
\* no timeout the call ends with the operation's outcome and never has a timer
C24_Timeout ==
  \A i \in OpIds :
    Timed(i) =>
      IF fc.timeout = <<>>
        THEN /\ ops[i].timer = "none"
             /\ OpDone(i) => OwnOutcome(i) /\ ops[i].running = {}
        ELSE /\ ops[i].timer \in {"armed", "fired", "cleared"}
             /\ ops[i].timer = "armed" =>
                  /\ ~OpDone(i)
                  /\ ops[i].deadline = ops[i].started + fc.timeout[1]
                  /\ ops[i].running = {} => OutcomeQueued(i)
             /\ ops[i].timer = "fired" =>
                  /\ now >= ops[i].started + fc.timeout[1]
                  /\ ops[i].running = {} => ops[i].late = {1}
             /\ ops[i].timer = "cleared" => ops[i].running = {} /\ ops[i].late = {}
             /\ OpDone(i) =>
                  /\ ops[i].timer /= "armed"
                  /\ ops[i].timer = "fired" <=> ops[i].result = TimeoutError
                  /\ ops[i].timer = "cleared" <=> OwnOutcome(i)

\* one call has ended with the timeout error and another with its
\* operation's value, its timer cleared
C24_Witness ==
  \E i, j \in OpIds :
    /\ Timed(i) /\ Timed(j)
    /\ OpDone(i) /\ ops[i].result = TimeoutError /\ ops[i].timer = "fired"
    /\ OpDone(j) /\ ops[j].result = FnValue(1) /\ ops[j].timer = "cleared"

\* C25: a timeout does not cancel the operation: when the timer of a call has
\* fired, and after the call has failed with the timeout error, the operation
\* is still running until it settles by itself, and that it can do after the
\* caller has received the error
C25_NoCancellation ==
  \A i \in OpIds :
    (Timed(i) /\ ops[i].timer = "fired") =>
      /\ ops[i].running \cup ops[i].late = {1}
      /\ OpDone(i) => ops[i].result = TimeoutError

\* the operation of a call settled after the call had failed with the
\* timeout error
C25_Witness ==
  \E i \in OpIds :
    /\ Timed(i)
    /\ OpDone(i)
    /\ ops[i].result = TimeoutError
    /\ ops[i].late = {1}
    /\ ops[i].running = {}
    /\ ops[i].afterDone = {1}

\* ---- an errorFn that throws ------------------------------------------------
ErrorFnThrows(c) ==
  calls[c].opts.errorFn.kind = "throws" /\ (LoaderFailed(c) \/ TimedOut(c))

\* C26: when options.errorFn throws while the failure of the loader (or the
\* timeout) is handled, getOrSet rejects with errorFn's exception and not
\* with the original error, whatever the other options are, and the call
\* stores no fallback value.
C26_ErrorFnThrows ==
  \A c \in CallIds :
    ErrorFnThrows(c) =>
      /\ calls[c].result = ErrorResult("errorFn")
      /\ \A k \in Keys : ~(written[k].by = "fallback" /\ written[k].c = c)

\* the errorFn threw although an old value was there to fall back on
C26_Witness ==
  \E c \in CallIds :
    /\ ErrorFnThrows(c) /\ LoaderFailed(c)
    /\ calls[c].opts.returnOldOnError /\ calls[c].fetched.type = "expired"
    /\ calls[c].result = ErrorResult("errorFn")

\* supporting, for executeFn and executeWithRetries: an errorFn that throws
\* is called once, after the last attempt; the call rejects with its
\* exception and no further attempt is made
ErrorFnThrowsNoRetry ==
  \A i \in OpIds :
    (ops[i].opts.errorFn.kind = "throws" /\ ops[i].errorFnCalls > 0) =>
      /\ ops[i].errorFnCalls = 1
      /\ ops[i].invoked = EffectiveRetries(ops[i]) + 1
      /\ ops[i].pc \in {"settling", "done"}
      /\ OpDone(i) => ops[i].result = ErrorResult("errorFn")

\* ---- properties of bulk syncs ------------------------------------------------
SyncIds == 1..Len(syncs)
\* bulkSync call i joined a pending promise; it did not run _bulkSync itself
SyncJoiner(i) == syncs[i].leader \notin {0, i}
\* when call i made its window check, a bulk sync had completed less than
\* defaultBulkSyncTtl before
InWindow(i) ==
  /\ syncs[i].checked /= <<>>
  /\ \E t \in syncs[i].doneBefore : syncs[i].checked[1] < t + DefaultBulkSyncTtl
\* bulkSync has returned to call i, or rejected
SyncReturned(i) == syncs[i].pc \in {"get", "done"}
\* call i invoked no source function and wrote nothing
SyncNoOp(i) == syncs[i].invoked = <<>> /\ syncs[i].completed = <<>>

\* C27: the source is invoked at most once per sync window. Bulk-sync
\* requests that are pending together share one pipeline: all of them wait
\* for the call registered in the single-flight map, only that call invokes
\* a source function, each source function at most once, and all get its
\* outcome. A request whose window check is made less than
\* defaultBulkSyncTtl after a completed sync invokes no source and changes
\* nothing in the store.
C27_SyncWindow ==
  \A i \in SyncIds :
    /\ syncs[i].pc = "wait" => bulkFlight /= 0 /\ syncs[i].leader = bulkFlight
    /\ SyncJoiner(i) => SyncNoOp(i) /\ syncs[i].fn = "none"
    /\ (SyncJoiner(i) /\ SyncReturned(i)) =>
         /\ SyncReturned(syncs[i].leader)
         /\ syncs[i].result = syncs[syncs[i].leader].result
    /\ syncs[i].invoked \in {<<>>, <<"syncFn">>, <<"bulkSyncFn">>, <<"syncFn", "bulkSyncFn">>}
    /\ InWindow(i) => SyncNoOp(i) /\ syncs[i].fn = "skipped"

\* a request made in the window of a completed sync has returned without
\* invoking its syncFn
C27_Witness ==
  \E i, j \in SyncIds :
    /\ syncs[i].completed /= <<>> /\ syncs[i].pc = "done"
    /\ j > i /\ InWindow(j) /\ syncs[j].syncFn /\ syncs[j].pc = "done"
    /\ syncs[j].result = ValueResult(0)

\* supporting: a request joins a pipeline that is pending when it resumes
SyncJoined ==
  \E i, j \in SyncIds :
    /\ SyncJoiner(j) /\ syncs[j].leader = i /\ syncs[j].syncFn
    /\ syncs[i].completed /= <<>> /\ syncs[j].pc = "done"

\* supporting: the sync window is counted from the latest completed sync
SyncWindowArmed ==
  bulkSyncExpirationTime =
    IF Completions = {} THEN 0
    ELSE (CHOOSE t \in Completions : \A u \in Completions : u <= t) + DefaultBulkSyncTtl

\* the value of the last pair for key k in an array of pairs
LastValue(data, k) ==
  LET n == CHOOSE m \in 1..Len(data) :
             data[m][1] = k /\ \A l \in (m + 1)..Len(data) : data[l][1] /= k
  IN  data[n][2]

\* C28 as stated: after a bulk sync that runs, the store holds exactly the
\* pairs the source returned; entries whose keys the source did not return
\* are no longer present.
C28_Original ==
  \A i \in SyncIds :
    syncs[i].completed /= <<>> =>
      /\ DOMAIN syncs[i].after = PairKeys(syncs[i].data)
      /\ \A k \in PairKeys(syncs[i].data) :
           syncs[i].after[k].value = LastValue(syncs[i].data, k)

\* C28: a bulk sync that runs writes the source's data into the store:
\* afterwards every key the source returned holds the value returned for it
\* (the last one, if the key is repeated), expiring defaultTtl after the
\* write; every other entry is as it was before.
C28_SyncWrites ==
  \A i \in SyncIds :
    syncs[i].completed /= <<>> =>
      \A k \in Keys :
        IF k \in PairKeys(syncs[i].data)
          THEN /\ k \in DOMAIN syncs[i].after
               /\ syncs[i].after[k] =
                    [value |-> LastValue(syncs[i].data, k),
                     expirationTime |-> syncs[i].completed[1] + DefaultTtl]
          ELSE Entry(syncs[i].after, k) = Entry(syncs[i].before, k)

\* a bulk sync wrote a key and the entry of a key that the source did not
\* return is still there
C28_Witness ==
  \E i \in SyncIds :
    /\ syncs[i].completed /= <<>>
    /\ syncs[i].data /= <<>>
    /\ \E k \in DOMAIN syncs[i].before : k \notin PairKeys(syncs[i].data) /\ k \in DOMAIN store

\* ---- properties of the periodic cleanup ------------------------------------
\* the interval is running and its next callback is due within the clock's bound
CleanupDue == intervalTimer.active /\ intervalTimer.next <= MaxTime
ExpiredUnprotected(k) == Expired(k) /\ k \notin protectedKeys
\* the entry of k is gone, or it was rewritten and is fresh, or k was
\* protected meanwhile
Cleaned(k) == k \notin DOMAIN store \/ ~Expired(k) \/ k \in protectedKeys
\* a callback of the interval leaves every protected entry as it is
PurgeKeepsProtected ==
  last'.op = "autoPurge" =>
    \A k \in protectedKeys \cap DOMAIN store : k \in DOMAIN store' /\ store'[k] = store[k]
\* a callback of the interval removes every unprotected expired entry and
\* nothing else
PurgeRemovesExpired ==
  last'.op = "autoPurge" =>
    DOMAIN store' = DOMAIN store \ {k \in DOMAIN store : ExpiredUnprotected(k)}

\* C29: with autoCleanupInterval set, as long as the interval is not stopped
\* (stopCleanupInterval, dispose), every unprotected expired entry is
\* eventually removed by the interval's purgeExpired() unless it is
\* rewritten or protected first, with no call from outside; the callback
\* purges without force, so protected expired entries are kept.
C29_AutoCleanup ==
  /\ \A k \in Keys :
       (ExpiredUnprotected(k) /\ CleanupDue) ~> (Cleaned(k) \/ ~intervalTimer.active)
  /\ [][PurgeKeepsProtected /\ PurgeRemovesExpired]_vars

\* the interval's callback has removed an entry and kept an expired
\* protected one
C29_Witness ==
  /\ last.op = "autoPurge" /\ last.ret.value > 0
  /\ phase = "live"
  /\ \E k \in protectedKeys : Expired(k)

\* ---- properties of the logger ------------------------------------------------
\* the head of the job queue is the handling of a failed getOrSet pipeline or
\* of a failed bulk sync
ErrorAtHead ==
  (HeadIs("pipeCont") \/ HeadIs("syncPipeCont")) /\ Head(mq).res.kind = "error"
\* a message is logged only by a cache with a logger, one per handled failure
LogsOnlyErrors ==
  logs' /= logs => logger /\ ErrorAtHead /\ Len(logs') = Len(logs) + 1 /\ mq' /= mq

\* C30: attaching a logger never changes control flow. Every step of the
\* cache is, in everything but the logger field and the logged messages
\* (return values, errors, store, pending jobs, timers, sync window), the
\* step a cache with a logger takes and the step a cache without one takes
\* from the same state on the same input; so both go through the same
\* states under the same operations, loader outcomes and clock readings.
\* The logger is handed a message only when a failure is handled.
C30_LoggerTransparent ==
  [][(\A lg \in BOOLEAN : NextLogWith(lg)) /\ LogsOnlyErrors]_vars

\* a cache with a logger has logged a failed getOrSet and a failed bulk
\* sync, and both calls have rejected with the original errors
C30_Witness ==
  /\ logger /\ Len(logs) = 2
  /\ Len(calls) = 1 /\ calls[1].pc = "done" /\ calls[1].result = ErrorResult("loader")
  /\ Len(syncs) = 1 /\ syncs[1].pc = "done" /\ syncs[1].result = ErrorResult("source")

\* ---- properties of executeFn with a timeout and retries -----------------------
\* call i is an executeFn call on an instance with a timeout, with an
\* effective retry count above 0
TimedRetry(i) ==
  ops[i].kind = "executeFn" /\ fc.timeout /= <<>> /\ EffectiveRetries(ops[i]) > 0
\* every attempt call i has made so far ended by its timeout: no invocation
\* settled before the timer it was raced against had fired
AllTimedOut(i) ==
  /\ ops[i].invoked >= 1
  /\ ops[i].running \cup ops[i].late = 1..ops[i].invoked
  /\ ops[i].lastError = TimeoutError

\* C31: in executeFn with a timeout T and an effective retry count N > 0
\* every attempt is raced against its own timer, armed for T after the
\* attempt's own invocation; an attempt whose timer fired is a failed attempt:
\* while an attempt is left the call waits for the backoff (which ends no
\* earlier than the attempt's start + T + the backoff time) and no timer is
\* armed meanwhile; when all N+1 attempts have timed out the call ends with
\* the timeout error, or with errorFn's value if errorFn returns one
C31_TimeoutRetried ==
  \A i \in OpIds :
    TimedRetry(i) =>
      LET N == EffectiveRetries(ops[i])
          T == fc.timeout[1]
          errorFn == ops[i].opts.errorFn
      IN  /\ ops[i].invoked <= N + 1
          /\ ops[i].pc = "attempt" =>
               /\ ops[i].timer \in {"armed", "fired"}
               /\ ops[i].invoked = ops[i].attempts + 1
          /\ ops[i].timer = "armed" => ops[i].deadline = ops[i].started + T
          /\ ops[i].timer = "fired" => now >= ops[i].started + T
          /\ ops[i].pc = "backoff" =>
               /\ ops[i].timer \in {"fired", "cleared"}
               /\ ops[i].invoked = ops[i].attempts
               /\ ops[i].attempts <= N
               /\ ops[i].timer = "fired" <=> ops[i].lastError = TimeoutError
               /\ ops[i].lastError = TimeoutError =>
                    ops[i].wake >= ops[i].started + T
                                     + BackoffTimeValue(ops[i].opts.backOffTime, ops[i].attempts)
          /\ (OpDone(i) /\ AllTimedOut(i)) =>
               /\ ops[i].invoked = N + 1
               /\ errorFn.kind \in {"none", "undefined"} => ops[i].result = TimeoutError
               /\ errorFn.kind = "value" => ops[i].result = ValueResult(errorFn.val)

\* three attempts of one call have each timed out, none of the invocations
\* has settled, and the call has failed with the timeout error
C31_Witness ==
  \E i \in OpIds :
    /\ TimedRetry(i)
    /\ EffectiveRetries(ops[i]) = 2
    /\ OpDone(i)
    /\ AllTimedOut(i)
    /\ ops[i].running = 1..MaxInvocations
    /\ ops[i].result = TimeoutError

\* ---- properties of the backoff ------------------------------------------------
\* the default waits before retries 1, 2, 3, in units of 100 ms
DefaultBackoffs == <<2, 4, 8>>
\* the wait before retry n under the call's backOffTime option (the custom
\* function of the model returns one unit)
BackoffWait(op, n) == IF op.opts.backOffTime = "custom" THEN 1 ELSE DefaultBackoffs[n] * BackoffUnit
\* the backoff function has been called once per counted attempt, with 1, 2, ...
BackoffsInOrder(i) ==
  /\ Len(ops[i].backoffs) = ops[i].attempts
  /\ ops[i].attempts <= EffectiveRetries(ops[i])
  /\ \A n \in 1..Len(ops[i].backoffs) : ops[i].backoffs[n] = n
  /\ ops[i].pc /= "backoff" => ops[i].wake = 0
  /\ Exhausted(i) => Len(ops[i].backoffs) = EffectiveRetries(ops[i])
\* what a step does to the backoff of call i: a backoff starts only when
\* attempt n fails with an attempt left, with one call backOffTime(n) and a
\* wait of that length; attempt n+1 is invoked only once that wait is over;
\* the attempt that ends the call starts no wait
BackoffStep(i) ==
  LET o == ops[i]
      o2 == ops'[i]
      n == Len(o.backoffs) + 1
  IN  /\ o2.backoffs /= o.backoffs =>
           /\ o.pc = "attempt" /\ o.invoked = n
           /\ o2.pc = "backoff"
           /\ o2.backoffs = Append(o.backoffs, n)
           /\ o2.wake = now + BackoffWait(o, n)
      /\ (o.invoked >= 1 /\ o2.invoked /= o.invoked) =>
           /\ o.pc = "backoff" /\ now >= o.wake
           /\ o.invoked = Len(o.backoffs)
           /\ o2.invoked = o.invoked + 1
           /\ o2.backoffs = o.backoffs
      /\ (o.pc = "attempt" /\ o2.pc \in {"settling", "done"}) =>
           o2.backoffs = o.backoffs /\ o2.wake = 0

\* C32: between failed attempt i and attempt i+1 (i = 1..N) executeWithRetries
\* waits backOffTime(i), by default 2^i * 100 ms: the backoff function is
\* called exactly once per retry, with 1, 2, ... in that order, the next
\* attempt is not invoked before the wait is over, and the final failed
\* attempt is followed by no wait
C32_Backoff ==
  /\ [](\A i \in OpIds : BackoffsInOrder(i))
  /\ [][\A i \in OpIds : BackoffStep(i)]_vars

\* a direct call with two retries and the default backoff has failed three
\* times: the third attempt was made at 200 + 400 ms and nothing was waited
\* after it
C32_Witness ==
  \E i \in OpIds :
    /\ Direct(i)
    /\ EffectiveRetries(ops[i]) = 2
    /\ ops[i].opts.backOffTime = "none"
    /\ Exhausted(i)
    /\ ops[i].backoffs = <<1, 2>>
    /\ ops[i].started = 6
    /\ now = 6

\* ---- properties of purgeExpired -----------------------------------------------
\* the entries purgeExpired has to remove: expired, and unprotected unless forced
Purgeable(force) ==
  {k \in DOMAIN store : store[k].expirationTime <= now /\ (force \/ k \notin protectedKeys)}

\* C33: purgeExpired() removes exactly the entries whose expirationTime <= now
\* and whose key is unprotected (every expired entry when forced); every
\* other entry keeps its value and expiration time, and the protected keys,
\* the clock, the single-flight map, the pending calls and jobs, the
\* cleanup timer and the bulk-sync state are unchanged
C33_PurgeExpired ==
  [][last'.op = "purgeExpired" =>
       /\ DOMAIN store' = DOMAIN store \ Purgeable(last'.flag)
       /\ \A k \in DOMAIN store' : store'[k] = store[k]
       /\ UNCHANGED <<now, protectedKeys, singleFlightMap, calls, mq, cfg, syncVars, lifeVars,
                      flowVars>>]_vars

\* after an unforced purge a protected entry that expires at this instant is
\* still stored and the other key has no entry
C33_Witness ==
  /\ last.op = "purgeExpired" /\ ~last.flag
  /\ protectedKeys = {"k1"}
  /\ "k1" \in DOMAIN store /\ store["k1"].expirationTime = now
  /\ "k2" \notin DOMAIN store

\* ---- properties of the single flight across retries ---------------------------
\* call i runs a pipeline of its own that has not reached its finally
OwnPipeline(i) ==
  ops[i].kind = "executeFn" /\ ops[i].leader = i /\ ops[i].pc \in {"attempt", "backoff", "settling"}
\* call j holds the promise of another call's pipeline
Joined(j) == ops[j].kind = "executeFn" /\ ops[j].leader \notin {0, j}
\* in this step a caller joins a pipeline that is waiting for a backoff
JoinsDuringBackoff ==
  \E j \in OpIds : ops[j].joinedAt = "none" /\ ops'[j].joinedAt = "backoff"

\* C34: the single-flight entry of a pipeline is registered from its start to
\* its finally, while it waits for a backoff as well as while an attempt
\* runs; a caller arriving during a backoff joins the pipeline and the step
\* invokes no operation; a joined caller never invokes an operation, applies
\* no errorFn and arms no timer, waits as long as the pipeline is pending,
\* and settles with the pipeline's outcome
C34_SingleFlightAcrossRetries ==
  /\ [](\A i \in OpIds :
          /\ OwnPipeline(i) => singleFlightMap[ops[i].f] = i
          /\ Joined(i) =>
               /\ ops[i].invoked = 0 /\ ops[i].running = {} /\ ops[i].attempts = 0
               /\ ops[i].errorFnCalls = 0 /\ ops[i].timer = "none"
               /\ ops[i].pc \in {"wait", "done"}
               /\ ops[i].pc = "wait" => OwnPipeline(ops[i].leader) /\ ops[ops[i].leader].f = ops[i].f
               /\ OpDone(i) => OpDone(ops[i].leader) /\ ops[i].result = ops[ops[i].leader].result)
  /\ [][JoinsDuringBackoff =>
          /\ \A k \in OpIds : ops'[k].invoked = ops[k].invoked /\ ops'[k].running = ops[k].running
          /\ UNCHANGED singleFlightMap]_vars

\* a caller that arrived while the pipeline waited between its first and its
\* second attempt has received the value of the second attempt without
\* invoking anything
C34_Witness ==
  \E i, j \in OpIds :
    /\ Joined(j) /\ ops[j].leader = i
    /\ ops[j].joinedAt = "backoff"
    /\ OpDone(j)
    /\ ops[i].invoked = 2
    /\ ops[j].invoked = 0
    /\ ops[j].result = FnValue(2)

\* ---- properties of the rate check before the single flight ---------------------
\* this step issues an executeFn call on an instance with a rate window
RatedCall ==
  /\ fc.rate /= <<>>
  /\ Len(ops') = Len(ops) + 1
  /\ ops'[Len(ops')].kind = "executeFn"
\* an earlier call of the same consumer for the same function passed the rate
\* check less than a window ago and its pipeline is still in flight
SamePairInFlight(c, f) ==
  \E i \in OpIds :
    /\ ops[i].c = c /\ ops[i].f = f
    /\ OwnPipeline(i)
    /\ passed[<<c, f>>] /= <<>>
    /\ now - passed[<<c, f>>][1] < fc.rate[1]
\* in this step call j joins a pipeline in flight
Joins(j) == ops[j].joinedAt = "none" /\ ops'[j].joinedAt /= "none"

\* C35: in executeFn the rate check comes before the single-flight lookup.
\* With a rate window, a call for the same (consumer, function) pair as a
\* call in flight, made within the window, is rejected: the rate-limit error
\* is what it resumes with and ends with, it joins nothing, and the rate
\* records stay as they were. A call that passes the check records the time
\* of its own invocation before the lookup, so at the moment a caller joins a
\* pipeline the rate record of its pair holds the time the caller was invoked
C35_RateBeforeSingleFlight ==
  /\ [](\A j \in OpIds :
          (OpDone(j) /\ ops[j].result = RateLimitError) =>
            ops[j].leader = 0 /\ ops[j].joinedAt = "none" /\ ops[j].invoked = 0)
  /\ [][/\ RatedCall =>
             LET j == Len(ops')
                 c == ops'[j].c
                 f == ops'[j].f
             IN  /\ ops'[j].pc = "rate" /\ ops'[j].leader = 0
                 /\ SamePairInFlight(c, f) =>
                      /\ mq' = Append(mq, Job("flowResume", j, RateLimitError))
                      /\ rateMap' = rateMap
                 /\ mq'[Len(mq')].res /= RateLimitError =>
                      /\ passed'[<<c, f>>] = <<now>>
                      /\ rateMap'[RateKey(c, f)] = DateNow(now)
        /\ \A j \in OpIds :
             (fc.rate /= <<>> /\ Joins(j)) =>
               LET p == <<ops[j].c, ops[j].f>>
               IN  /\ Head(mq) = Job("flowResume", j, NoResult)
                   /\ passed[p] /= <<>>
                   /\ rateMap[RateKey(p[1], p[2])] = DateNow(passed[p][1])]_vars

\* the second call of a consumer for a function was rejected by the rate
\* limit while the pipeline of the first, started within the window, is
\* still in flight
C35_Witness ==
  \E i, j \in OpIds :
    /\ i < j
    /\ ops[i].c = ops[j].c /\ ops[i].f = ops[j].f
    /\ OwnPipeline(i) /\ ops[i].pc = "attempt"
    /\ OpDone(j) /\ ops[j].result = RateLimitError
    /\ ops[j].pending = i
    /\ singleFlightMap[ops[j].f] = i

\* ---- properties of a loader that outlives its call -----------------------------
\* the value of the loader of call c is about to be handled by fn, after the
\* timeout of the call has fired
LateLoad(c) ==
  /\ HeadIs("fnCont")
  /\ Head(mq) = Job("fnCont", c, ValueResult(calls[c].lval))
  /\ calls[c].timer = "fired"
\* the step runs the job at the head of the queue, which queues no other
HeadJobRuns == mq' = Tail(mq)
\* the entry set(key, value, ttl) of call c stores at this moment
LoadedEntry(c) ==
  [value |-> calls[c].lval,
   expirationTime |-> now + (IF calls[c].opts.ttl = <<>> THEN DefaultTtl ELSE calls[c].opts.ttl[1])]

\* C36: a loader that resolves after the timeout of its getOrSet call has
\* fired, the call having failed or returned a fallback, still has its value
\* written into the store: the step writes the loaded value under the call's
\* key with the ttl of that call (the default ttl if it gave none), whatever
\* entry the key holds at that moment (none, the fallback re-cached on the
\* timeout, or a value set in between), when fn resumes after the loader,
\* and changes nothing about the call
C36_LateLoaderWrites ==
  [][\A c \in CallIds :
       (LateLoad(c) /\ HeadJobRuns) =>
         /\ store' = MapSet(store, calls[c].key, LoadedEntry(c))
         /\ written'[calls[c].key].by = "load"
         /\ calls' = calls]_vars

\* a call returned the value of its errorFn on the timeout, which re-cached
\* it; the loader resolved afterwards and the key now holds the loaded value
\* with the call's own ttl
C36_Witness ==
  \E c \in CallIds :
    /\ Settled(c) /\ TimedOut(c)
    /\ calls[c].opts.errorFn.kind = "value"
    /\ calls[c].result = ValueResult(calls[c].opts.errorFn.val)
    /\ calls[c].loader = "resolved"
    /\ calls[c].lval /= calls[c].opts.errorFn.val
    /\ calls[c].opts.ttl = <<1>>
    /\ written[calls[c].key] = Write("load", c, calls[c].lval, now + 1)
    /\ store[calls[c].key] = [value |-> calls[c].lval, expirationTime |-> now + 1]
    /\ mq = <<>>

\* ---- properties of the captured old value --------------------------------------
\* call c asked for the old value on an error, has no errorFn that returns a
\* value, and found an entry (fresh or expired) when it was called
FallsBackToOld(c) ==
  /\ calls[c].opts.returnOldOnError
  /\ calls[c].opts.errorFn.kind \in {"none", "undefined"}
  /\ calls[c].fetched.type /= "miss"
\* the key of call c holds an entry with another value than the one the call
\* captured: it was written after the call was made
NewerEntry(c) ==
  /\ calls[c].key \in DOMAIN store
  /\ store[calls[c].key].value /= calls[c].fetched.value

\* C37: the old value of returnOldOnError is the one getOrSet captured when
\* it was called. When the failure of the call is handled while the key holds
\* a newer entry, written while the loader was in flight, the fallback
\* replaces that entry by the captured value with the error ttl, and the
\* captured value is what the call returns
C37_CapturedOldValue ==
  /\ [][\A c \in CallIds :
          (PipeCont /\ FailureAtHead(c) /\ FallsBackToOld(c) /\ NewerEntry(c))
            => /\ store' = MapSet(store, calls[c].key,
                                  [value |-> calls[c].fetched.value,
                                   expirationTime |-> now + ErrorTtlOf(c)])
               /\ calls'[c].replaced = <<store[calls[c].key].value>>
               /\ mq'[Len(mq')] = Job("finally", c, ValueResult(calls[c].fetched.value))]_vars
  /\ [](\A c \in CallIds :
          (Settled(c) /\ FallsBackToOld(c) /\ calls[c].result.kind = "value"
             /\ calls[c].loader /= "resolved")
            => calls[c].result = ValueResult(calls[c].fetched.value))

\* a call captured the value 1; the key was set to 2 while its loader was in
\* flight; the loader rejected, and the call returned 1 and cached it over
\* the entry holding 2
C37_Witness ==
  \E c \in CallIds :
    /\ Settled(c) /\ LoaderFailed(c)
    /\ FallsBackToOld(c)
    /\ calls[c].fetched.value = 1
    /\ calls[c].replaced = <<2>>
    /\ calls[c].result = ValueResult(1)
    /\ written[calls[c].key].by = "fallback"
    /\ store[calls[c].key].value = 1

\* ---- properties of a failing bulk-sync source ----------------------------------
\* call i ran _bulkSync and the source function it awaited rejected
SourceFailed(i) == syncs[i].leader = i /\ syncs[i].fn = "failed"
\* the end of the sync window as the completed syncs define it
WindowOfCompletions ==
  IF Completions = {} THEN 0
  ELSE (CHOOSE t \in Completions : \A u \in Completions : u <= t) + DefaultBulkSyncTtl
\* in this step the source function of call i is found to have failed, or an
\* error is handed to call i
FailureStep(i) ==
  \/ syncs[i].fn /= "failed" /\ syncs'[i].fn = "failed"
  \/ syncs[i].result.kind /= "error" /\ syncs'[i].result.kind = "error"

\* C38 as stated: a bulkSync (or bulkAsyncGet) whose source function failed
\* rejects with the error of the source function
C38_Original ==
  \A i \in SyncIds :
    (SourceFailed(i) /\ SyncReturned(i)) => syncs[i].result = ErrorResult("source")

\* C38 amended: a bulkSync whose source function fails rejects with that
\* error if the failure comes before the request's timeout has fired, and
\* has rejected with the timeout error otherwise; so does every request that
\* joined it; a rejected bulkAsyncGet returns no map. No step of the failure
\* changes the store or the sync window: the window is armed by completed
\* syncs only. A request that starts a pipeline when no sync has completed
\* before invokes its source function
C38_SourceFailure ==
  /\ [](/\ bulkSyncExpirationTime = WindowOfCompletions
        /\ \A i \in SyncIds :
             /\ (SourceFailed(i) /\ SyncReturned(i)) =>
                  /\ syncs[i].pc = "done" /\ syncs[i].got = <<>> /\ syncs[i].completed = <<>>
                  /\ syncs[i].timer \in {"cleared", "fired"}
                  /\ syncs[i].timer = "cleared" => syncs[i].result = ErrorResult("source")
                  /\ syncs[i].timer = "fired" => syncs[i].result = ErrorResult("timeout")
                  /\ \A j \in SyncIds :
                       (syncs[j].leader = i /\ SyncReturned(j)) =>
                         syncs[j].result = syncs[i].result /\ syncs[j].got = <<>>
             /\ (syncs[i].leader = i /\ syncs[i].doneBefore = {}
                   /\ FirstSource(syncs[i]) /= "none") =>
                  syncs[i].invoked /= <<>> /\ syncs[i].invoked[1] = FirstSource(syncs[i]))
  /\ [][\A i \in SyncIds :
          FailureStep(i) => UNCHANGED <<store, bulkSyncExpirationTime, protectedKeys>>]_vars

\* a bulkAsyncGet whose source function failed was rejected with its error,
\* the store and the window are as they were, and the next request, made
\* when nothing was pending, has invoked its source function
C38_Witness ==
  \E i, j \in SyncIds :
    /\ syncs[i].get /\ SourceFailed(i)
    /\ syncs[i].pc = "done" /\ syncs[i].result = ErrorResult("source")
    /\ j > i /\ syncs[j].pendingAtIssue = {} /\ syncs[j].leader = j
    /\ syncs[j].invoked /= <<>>
    /\ bulkSyncExpirationTime = 0
    /\ store = StoreAfterSet

\* ---- properties of protected entries -------------------------------------------
\* the operations that may remove the entry of a protected key
ForcedRemoval ==
  \/ last'.op \in {"delete", "clear", "purgeExpired"} /\ last'.flag
  \/ last'.op = "dispose"
\* the last operation was an evicting get of a protected key whose entry has
\* expired
EvictingGetOfProtected ==
  /\ last'.op = "get" /\ last'.flag
  /\ last'.key \in protectedKeys
  /\ Expired(last'.key)

\* C39: get(K) with eviction enabled returns undefined for the expired entry
\* of a protected key and leaves it stored. In every step that removes the
\* entry of a key protected at that moment, the operation is delete, clear or
\* purgeExpired with force, or dispose: get, bulkGet, the unforced forms, set,
\* invalidate and the changes of the protected set never remove one
C39_ProtectedRemoval ==
  [][/\ EvictingGetOfProtected =>
          /\ store' = store
          /\ last'.ret = [type |-> "undefined", value |-> 0, expirationTime |-> 0]
     /\ \A k \in protectedKeys :
          (k \in DOMAIN store /\ k \notin DOMAIN store') => ForcedRemoval]_vars

\* an evicting get of the only stored key, which is protected and whose
\* entry expired a while ago, has returned undefined and the entry is still
\* stored
C39_Witness ==
  /\ last = Op("get", "k2", TRUE, [type |-> "undefined", value |-> 0, expirationTime |-> 0])
  /\ protectedKeys = {"k2"}
  /\ DOMAIN store = {"k2"}
  /\ store["k2"].expirationTime < now

\* ---- liveness of executeFn under a timeout -------------------------------------
\* no invocation of the operation of call i has settled
NeverSettled(i) == ops[i].invoked >= 1 /\ ops[i].running = 1..ops[i].invoked

\* C40: with a timeout and a finite retry count every executeFn call made,
\* whether it runs its own pipeline or joins one, eventually settles, whether
\* or not its operation ever settles, and every single-flight entry is
\* eventually removed
C40_EventuallySettles ==
  /\ \A i \in 1..MaxOps : (i \in OpIds) ~> (i \in OpIds /\ OpDone(i))
  /\ \A f \in Ids : (singleFlightMap[f] /= 0) ~> (singleFlightMap[f] = 0)

\* two attempts of a call timed out while its operation never settled; the
\* call and the caller that joined it have failed with the timeout error and
\* the single-flight entry is gone
C40_Witness ==
  \E i, j \in OpIds :
    /\ ops[i].leader = i /\ ops[j].leader = i /\ j /= i
    /\ EffectiveRetries(ops[i]) = 1
    /\ NeverSettled(i) /\ ops[i].invoked = 2
    /\ OpDone(i) /\ OpDone(j)
    /\ ops[i].result = TimeoutError /\ ops[j].result = TimeoutError
    /\ singleFlightMap[ops[i].f] = 0

====
